---- MODULE Spec2Model ----
(***************************************************************************)
(* Parsoid HTML-to-wikitext serializer (js/lib/dom.cleanup.js): the        *)
(* cleanup pre-pass, the separator-constraint algebra and the traversal    *)
(* driver, as state machines.                                              *)
(***************************************************************************)
EXTENDS Integers, Sequences, FiniteSets, TLC

(***************************************************************************)
(* Bounds of the model.                                                    *)
(***************************************************************************)
\* newline constraints drawn for mergeConstraints range over 0..MaxConstraint
MaxConstraint == 2
\* a typeof attribute holds at most MaxTypeofLen space-separated tokens
MaxTypeofLen == 2
\* the trees of the cleanup pre-pass have at most MaxNodes elements
MaxNodes == 2
\* the body of a document has at most MaxItems children
MaxItems == 3
\* a document that holds an item with several inline children has at most
\* MaxWideItems items
MaxWideItems == 2
\* the longest text escapeWikiText is called on
MaxTextLen == 4

(***************************************************************************)
(* Optional numbers: JS undefined is the sentinel Undef.                   *)
(***************************************************************************)
Undef == -1

\* default max of a separator: "Anything more than two lines will trigger
\* paragraphs, so default to two if nothing is specified."
DefaultMax == 2

Max2(x, y) == IF x >= y THEN x ELSE y
Min2(x, y) == IF x <= y THEN x ELSE y
\* JS  v || 0  on an optional number
OrZero(v) == IF v = Undef THEN 0 ELSE v

(***************************************************************************)
(* Separator newline constraints.                                          *)
(***************************************************************************)
\* the result of a sepnls callback: {min?, max?}; present = FALSE models a
\* handler without that callback
EmptyC == [min |-> Undef, max |-> Undef]
NoCallback == [present |-> FALSE, min |-> Undef, max |-> Undef]
CbResult(mn, mx) == [present |-> TRUE, min |-> mn, max |-> mx]
CbC(cb) == [min |-> cb.min, max |-> cb.max]

\* state.sep.constraints when it is not set
NoConstraints == [set |-> FALSE, min |-> Undef, max |-> Undef, a |-> EmptyC, b |-> EmptyC]

\* WSP.getSepNlConstraints(nodeA, sepNlsHandlerA, nodeB, sepNlsHandlerB),
\* given what the two callbacks return
getSepNlConstraints(cbA, cbB) ==
  LET a    == IF cbA.present THEN CbC(cbA) ELSE EmptyC
      min0 == IF cbA.present THEN cbA.min ELSE Undef
      max0 == IF cbA.present THEN cbA.max ELSE DefaultMax
      \* if (cb.min !== undefined) ...
      conflict1 == cbB.present /\ cbB.min # Undef /\ max0 # Undef /\ max0 < cbB.min
      min1 == IF cbB.present /\ cbB.min # Undef
                THEN (IF conflict1 THEN cbB.min ELSE Max2(OrZero(min0), cbB.min))
                ELSE min0
      max1 == IF conflict1 THEN cbB.min ELSE max0
      \* if (cb.max !== undefined) ...
      conflict2 == cbB.present /\ cbB.max # Undef /\ min1 # Undef /\ min1 > cbB.max
      min2 == IF conflict2 THEN cbB.max ELSE min1
      max2 == IF cbB.present /\ cbB.max # Undef
                THEN (IF conflict2 THEN cbB.max
                      ELSE IF max1 # Undef THEN Min2(max1, cbB.max) ELSE cbB.max)
                ELSE max1
  IN [set |-> TRUE, min |-> min2, max |-> max2,
      a |-> a, b |-> IF cbB.present THEN CbC(cbB) ELSE EmptyC]

\* mergeConstraints without its "if (res.min > res.max)" branch
mergeConstraints_conflictKept(old, new) ==
  [set |-> TRUE,
   min |-> Max2(OrZero(old.min), OrZero(new.min)),
   max |-> Min2(IF old.max # Undef THEN old.max ELSE DefaultMax,
                IF new.max # Undef THEN new.max ELSE DefaultMax),
   a |-> old.a, b |-> new.b]

\* WSP.mergeConstraints(oldConstraints, newConstraints)
mergeConstraints(old, new) ==
  LET rmin == Max2(OrZero(old.min), OrZero(new.min))
      rmax == Min2(IF old.max # Undef THEN old.max ELSE DefaultMax,
                   IF new.max # Undef THEN new.max ELSE DefaultMax)
      \* else if (newConstraints.min && newConstraints.min < res.min)
      newMinWins == /\ ~(new.max # Undef /\ new.max > rmin)
                    /\ new.min # Undef /\ new.min # 0 /\ new.min < rmin
      cmin == IF newMinWins THEN new.min ELSE rmin
  IN IF rmin > rmax
       THEN [set |-> TRUE, min |-> cmin, max |-> cmin, a |-> old.a, b |-> new.b]
       ELSE [set |-> TRUE, min |-> rmin, max |-> rmax, a |-> old.a, b |-> new.b]

\* the tail of WSP.updateSeparatorConstraints: merge into state.sep.constraints
updateSeparatorConstraints(cur, cbA, cbB) ==
  IF cur.set THEN mergeConstraints(cur, getSepNlConstraints(cbA, cbB))
             ELSE getSepNlConstraints(cbA, cbB)

(***************************************************************************)
(* Strings.  A string is a sequence of characters; each character carries  *)
(* the offset in the page source (env.page.src) it was taken from, or      *)
(* NoOrigin when the serializer made it up.  All comparisons and regular   *)
(* expressions look at the characters only.                                 *)
(***************************************************************************)
NoOrigin == -1
Ch(c, o) == [c |-> c, o |-> o]
\* a literal of the serializer's code
Lit(cs) == [i \in 1..Len(cs) |-> Ch(cs[i], NoOrigin)]
\* source text starting at offset base
Src(cs, base) == [i \in 1..Len(cs) |-> Ch(cs[i], base + i - 1)]
Chars(s) == [i \in 1..Len(s) |-> s[i].c]
SameText(s, t) == Chars(s) = Chars(t)

NL == "\n"
CR == "\r"
SP == " "
IsWs(c) == c \in {NL, CR, SP, "\t"}
CommentOpen == <<"<", "!", "-", "-">>
CommentClose == <<"-", "-", ">">>
EscapedClose == <<"-", "-", "&", "g", "t", ";">>

\* String.prototype.substring(a, b): arguments clamped to 0..length, swapped
\* when a > b
Clamp(s, a) == IF a < 0 THEN 0 ELSE IF a > Len(s) THEN Len(s) ELSE a
substring(s, a, b) ==
  LET x == Clamp(s, a)
      y == Clamp(s, b)
  IN IF x <= y THEN SubSeq(s, x + 1, y) ELSE SubSeq(s, y + 1, x)
\* substring(a) up to the end
substringFrom(s, a) == substring(s, a, Len(s))

\* the literal lit stands at position i (1-based) of s
At(s, i, lit) ==
  /\ i >= 1
  /\ i + Len(lit) - 1 <= Len(s)
  /\ \A k \in 1..Len(lit) : s[i + k - 1].c = lit[k]

\* position of the first lit at or after i, 0 when there is none
RECURSIVE IndexOf(_, _, _)
IndexOf(s, i, lit) ==
  IF i + Len(lit) - 1 > Len(s) THEN 0
  ELSE IF At(s, i, lit) THEN i
  ELSE IndexOf(s, i + 1, lit)

\* <!--([^\-]|-(?!->))*-->  matched at position i: the position after the
\* comment, 0 when no comment starts at i.  The body cannot run over a "-->",
\* so the comment ends at the first "-->" after the opening.
CommentEnd(s, i) ==
  IF ~At(s, i, CommentOpen) THEN 0
  ELSE LET j == IndexOf(s, i + 4, CommentClose)
       IN IF j = 0 THEN 0 ELSE j + 3

\* (\s|<!--...-->)* matched greedily from position i: the position after
\* the last item matched
RECURSIVE SepRun(_, _)
SepRun(s, i) ==
  IF i > Len(s) THEN i
  ELSE IF IsWs(s[i].c) THEN SepRun(s, i + 1)
  ELSE IF CommentEnd(s, i) # 0 THEN SepRun(s, CommentEnd(s, i))
  ELSE i

\* isValidSep(sep):  sep.match(/^(\s|<!--([^\-]|-(?!->))*-->)*$/)
isValidSep(s) == SepRun(s, 1) = Len(s) + 1

\* isValidDSR(dsr); a missing dsr is the empty tuple, a null entry is Undef
isValidDSR(dsr) ==
  /\ Len(dsr) >= 2
  /\ dsr[1] # Undef /\ dsr[1] >= 0
  /\ dsr[2] # Undef /\ dsr[2] >= 0

\* comment.replace(/-->/, '--&gt;'): the first "-->" only
replaceFirstClose(v) ==
  LET j == IndexOf(v, 1, CommentClose)
  IN IF j = 0 THEN v
     ELSE SubSeq(v, 1, j - 1) \o Lit(EscapedClose) \o SubSeq(v, j + 3, Len(v))

\* commentWT(comment)
commentWT(v) == Lit(CommentOpen) \o replaceFirstClose(v) \o Lit(CommentClose)

\* number of newlines in s
RECURSIVE CountNl(_)
CountNl(s) ==
  IF s = <<>> THEN 0
  ELSE (IF Head(s).c = NL THEN 1 ELSE 0) + CountNl(Tail(s))
HasNl(s) == \E i \in 1..Len(s) : s[i].c = NL

(***************************************************************************)
(* WSP.makeSeparator                                                       *)
(***************************************************************************)
\* [ \t]* from position i: the position after the run
RECURSIVE SkipBlanks(_, _)
SkipBlanks(s, i) ==
  IF i <= Len(s) /\ s[i].c \in {SP, "\t"} THEN SkipBlanks(s, i + 1) ELSE i

\* \n[ \t]*?<!--...-->[ \t]*?(?=\n) at position i: the position after the
\* match (the newline looked ahead at is not part of it), 0 for no match
CommentLine(s, i) ==
  IF ~(i <= Len(s) /\ s[i].c = NL) THEN 0
  ELSE LET e == CommentEnd(s, SkipBlanks(s, i + 1))
       IN IF e = 0 THEN 0
          ELSE LET f == SkipBlanks(s, e)
               IN IF f <= Len(s) /\ s[f].c = NL THEN f ELSE 0

\* (?:comment line)+ at position i
RECURSIVE CommentLines(_, _)
CommentLines(s, i) ==
  LET e == CommentLine(s, i)
  IN IF e = 0 THEN i ELSE CommentLines(s, e)

\* splitRe at position i: the position after the match, 0 for no match
splitReEnd(s, i) ==
  IF CommentLine(s, i) # 0 THEN CommentLines(s, i) ELSE CommentEnd(s, i)

\* sep.split(new RegExp('(' + splitReString + ')')): the pieces between the
\* matches (m = FALSE) alternating with the matches (m = TRUE)
RECURSIVE splitBits(_, _, _)
splitBits(s, from, i) ==
  IF i > Len(s) THEN << [t |-> SubSeq(s, from, Len(s)), m |-> FALSE] >>
  ELSE LET e == splitReEnd(s, i)
       IN IF e = 0 THEN splitBits(s, from, i + 1)
          ELSE << [t |-> SubSeq(s, from, i - 1), m |-> FALSE],
                  [t |-> SubSeq(s, i, e - 1), m |-> TRUE] >> \o splitBits(s, e, e)

RECURSIVE joinBits(_)
joinBits(bits) == IF bits = <<>> THEN <<>> ELSE Head(bits).t \o joinBits(Tail(bits))

\* sep.split(splitRe).join(''): the pieces without the matches
RECURSIVE joinPieces(_)
joinPieces(bits) ==
  IF bits = <<>> THEN <<>>
  ELSE (IF Head(bits).m THEN <<>> ELSE Head(bits).t) \o joinPieces(Tail(bits))

\* bit.replace(/\n([^\n]*)/, '$1') as long as n > max: the first k newlines
\* of the bit go
RECURSIVE dropNls(_, _)
dropNls(t, k) ==
  IF k = 0 \/ t = <<>> THEN t
  ELSE IF Head(t).c = NL THEN dropNls(Tail(t), k - 1)
  ELSE <<Head(t)>> \o dropNls(Tail(t), k)

\* the while (n > nlConstraints.max) loop: bits are popped off the end,
\* matches (comments) are kept, k newlines are taken out of the pieces
RECURSIVE stripBits(_, _)
stripBits(bits, k) ==
  IF k = 0 \/ bits = <<>> THEN bits
  ELSE LET last == bits[Len(bits)]
           rest == SubSeq(bits, 1, Len(bits) - 1)
       IN IF last.m THEN stripBits(rest, k) \o <<last>>
          ELSE LET here == IF CountNl(last.t) < k THEN CountNl(last.t) ELSE k
               IN stripBits(rest, k - here) \o << [t |-> dropNls(last.t, here), m |-> FALSE] >>

RECURSIVE newlines(_)
newlines(k) == IF k <= 0 THEN <<>> ELSE Lit(<<NL>>) \o newlines(k - 1)

\* the longest run of [^\n>] from position i
RECURSIVE plainRun(_, _)
plainRun(s, i) ==
  IF i <= Len(s) /\ s[i].c \notin {NL, ">"} THEN 1 + plainRun(s, i + 1) ELSE 0

\* (<!--...-->[^\n]*)?$ can follow a run of k characters from position i
tailAfter(s, i, k) ==
  \/ i + k - 1 = Len(s)
  \/ /\ CommentEnd(s, i + k) # 0
     /\ ~HasNl(SubSeq(s, CommentEnd(s, i + k), Len(s)))

\* /[^\n>]+(<!--(?:[^\-]|-(?!->))*-->[^\n]*)?$/ matches from position i
lastLineAt(s, i) == \E k \in 1..plainRun(s, i) : tailAfter(s, i, k)

\* sep.replace(/[^\n>]+(<!--...-->[^\n]*)?$/g, '$1'): the match starts at the
\* leftmost position i, its run of [^\n>] is the longest one, k characters
leastOf(S) == CHOOSE x \in S : \A y \in S : x <= y
greatestOf(S) == CHOOSE x \in S : \A y \in S : y <= x
cutLastLine(s, i, k) == SubSeq(s, 1, i - 1) \o SubSeq(s, i + k, Len(s))
stripLastLineAt(s, i) ==
  cutLastLine(s, i, greatestOf({k \in 1..plainRun(s, i) : tailAfter(s, i, k)}))
stripLastLine(s) ==
  IF \E i \in 1..Len(s) : lastLineAt(s, i)
    THEN stripLastLineAt(s, leastOf({i \in 1..Len(s) : lastLineAt(s, i)}))
    ELSE s

preSafeTags == {"br", "table", "tbody", "caption", "tr", "td", "th"}

\* minNls: nlConstraints.min || 0, less one at the start of the output when
\* nlConstraints.a.min is not set
minNlsOf(nlConstraints, atStartOfOutput) ==
  IF atStartOfOutput /\ OrZero(nlConstraints.a.min) = 0 /\ OrZero(nlConstraints.min) > 0
    THEN OrZero(nlConstraints.min) - 1 ELSE OrZero(nlConstraints.min)

\* newlines are appended up to minNls, or stripped down to nlConstraints.max
adjustNewlines(sep, bits, sepNlCount, minNls, max) ==
  IF minNls > 0 /\ sepNlCount < minNls
    THEN sep \o newlines(minNls - sepNlCount)
  ELSE IF max # Undef /\ sepNlCount > max
    THEN joinBits(stripBits(bits, sepNlCount - max))
  ELSE sep

\* the non-nl whitespace of the last line goes when there is a min
\* constraint and the node is not pre-safe
stripLastLineIf(sep, nodeName, nlConstraints) ==
  IF nlConstraints.min # Undef /\ nlConstraints.min > 0 /\ nodeName \notin preSafeTags
    THEN stripLastLine(sep)
    ELSE sep

makeSeparatorOfBits(sep, bits, nodeName, nlConstraints, atStartOfOutput) ==
  stripLastLineIf(
    adjustNewlines(sep, bits, CountNl(joinPieces(bits)),
                   minNlsOf(nlConstraints, atStartOfOutput), nlConstraints.max),
    nodeName, nlConstraints)

\* WSP.makeSeparator(sep, node, nlConstraints, state)
makeSeparator(sep, nodeName, nlConstraints, atStartOfOutput) ==
  makeSeparatorOfBits(sep, splitBits(sep, 1, 1), nodeName, nlConstraints, atStartOfOutput)

(***************************************************************************)
(* The DOM given to serializeDOM.  A node is a record: nodeName, parent,   *)
(* child list, nodeValue (text and comment nodes), data.parsoid.dsr (empty *)
(* when there is none) and whether it bears a diff mark.                   *)
(***************************************************************************)
NoNode == 0
Body == 1
\* about: the about attribute as a number, NoAbout for none; tplSrc:
\* data-parsoid.src of an element whose typeof matches mw:Object, <<>> for
\* any other element
NoAbout == 0
TplNode(name, parent, children, dsr, mark, about, tplSrc) ==
  [name |-> name, parent |-> parent, kids |-> children, value |-> <<>>,
   dsr |-> dsr, mark |-> mark, about |-> about, tplSrc |-> tplSrc]
Node(name, parent, children, value, dsr, mark) ==
  [name |-> name, parent |-> parent, kids |-> children, value |-> value,
   dsr |-> dsr, mark |-> mark, about |-> NoAbout, tplSrc |-> <<>>]

isElt(d, n) == n # NoNode /\ d[n].name \notin {"#text", "#comment"}
isText(d, n) == n # NoNode /\ d[n].name = "#text"
isComment(d, n) == n # NoNode /\ d[n].name = "#comment"

siblingIndex(d, n) ==
  CHOOSE i \in 1..Len(d[d[n].parent].kids) : d[d[n].parent].kids[i] = n
domNextSibling(d, n) ==
  IF d[n].parent = NoNode THEN NoNode
  ELSE LET i == siblingIndex(d, n)
           ks == d[d[n].parent].kids
       IN IF i < Len(ks) THEN ks[i + 1] ELSE NoNode
domPreviousSibling(d, n) ==
  IF d[n].parent = NoNode THEN NoNode
  ELSE LET i == siblingIndex(d, n)
       IN IF i > 1 THEN d[d[n].parent].kids[i - 1] ELSE NoNode
firstChild(d, n) == IF d[n].kids = <<>> THEN NoNode ELSE d[n].kids[1]
lastChild(d, n) == IF d[n].kids = <<>> THEN NoNode ELSE d[n].kids[Len(d[n].kids)]

AllWs(s) == \A i \in 1..Len(s) : IsWs(s[i].c)
\* DU.isIEW: a text node of whitespace only
isIEW(d, n) == isText(d, n) /\ AllWs(d[n].value)
\* a separator node: inter-element whitespace or a comment
isSepNode(d, n) == isIEW(d, n) \/ isComment(d, n)

\* DU.previousNonSepSibling / DU.nextNonSepSibling
RECURSIVE previousNonSepSibling(_, _)
previousNonSepSibling(d, n) ==
  LET p == domPreviousSibling(d, n)
  IN IF p = NoNode THEN NoNode
     ELSE IF isSepNode(d, p) THEN previousNonSepSibling(d, p)
     ELSE p
RECURSIVE nextNonSepSibling(_, _)
nextNonSepSibling(d, n) ==
  LET x == domNextSibling(d, n)
  IN IF x = NoNode THEN NoNode
     ELSE IF isSepNode(d, x) THEN nextNonSepSibling(d, x)
     ELSE x

\* WSP._getPrevSeparatorElement / WSP._getNextSeparatorElement
getPrevSeparatorElement(d, n) ==
  IF previousNonSepSibling(d, n) # NoNode THEN previousNonSepSibling(d, n)
  ELSE d[n].parent
getNextSeparatorElement(d, n) ==
  IF nextNonSepSibling(d, n) # NoNode THEN nextNonSepSibling(d, n)
  ELSE d[n].parent

\* DU.isBlockNode / DU.hasCurrentDiffMark / DU.hasInsertedOrModifiedDiffMark
isBlockNode(d, n) == n # NoNode /\ d[n].name \in {"body", "p", "h2", "hr", "pre", "ul", "ol", "li"}
hasCurrentDiffMark(d, n) == n # NoNode /\ isElt(d, n) /\ d[n].mark
hasInsertedOrModifiedDiffMark(d, n) == hasCurrentDiffMark(d, n)

\* precedingSeparatorTxt(n, rtTestMode) with rtTestMode = true; the result
\* is [ok, len]: ok = FALSE is null, len the length of the joined text
RECURSIVE precedingSeparatorTxt(_, _, _)
precedingSeparatorTxt(d, n, orig) ==
  IF n = NoNode THEN [ok |-> TRUE, len |-> 0]
  ELSE IF isIEW(d, n) \/ isComment(d, n) \/ n = orig
    THEN LET r == precedingSeparatorTxt(d, domPreviousSibling(d, n), orig)
             own == IF isIEW(d, n) THEN Len(d[n].value)
                    ELSE IF isComment(d, n) THEN Len(d[n].value) + 7
                    ELSE 0
         IN [ok |-> r.ok, len |-> r.len + own]
  ELSE [ok |-> FALSE, len |-> 0]

(***************************************************************************)
(* Text nodes: the regular expressions of _serializeTextNode and           *)
(* handleSeparatorText.                                                    *)
(***************************************************************************)
\* /\n\s*$/: the position of the first newline after which there is only
\* whitespace, 0 for no match
trailingNlAt(s) ==
  LET starts == {i \in 1..Len(s) : s[i].c = NL /\ AllWs(SubSeq(s, i, Len(s)))}
  IN IF starts = {} THEN 0 ELSE CHOOSE x \in starts : \A y \in starts : x <= y

\* ([ \t]*\n)* from position i: the position after the last repetition
RECURSIVE blankLines(_, _)
blankLines(s, i) ==
  LET j == SkipBlanks(s, i)
  IN IF j <= Len(s) /\ s[j].c = NL THEN blankLines(s, j + 1) ELSE i

\* /\n([ \t]*\n)+/ at position i: the position after the match, 0 for none
doubleNlEnd(s, i) ==
  IF i <= Len(s) /\ s[i].c = NL /\ blankLines(s, i + 1) > i + 1
    THEN blankLines(s, i + 1) ELSE 0

\* res.match(/\n([ \t]*\n)+/g).length
RECURSIVE doubleNewlineCount(_, _)
doubleNewlineCount(s, i) ==
  IF i > Len(s) THEN 0
  ELSE IF doubleNlEnd(s, i) # 0 THEN 1 + doubleNewlineCount(s, doubleNlEnd(s, i))
  ELSE doubleNewlineCount(s, i + 1)

\* res.replace(/\n([ \t]*\n)+/g, '\n')
RECURSIVE collapseNewlines(_, _)
collapseNewlines(s, i) ==
  IF i > Len(s) THEN <<>>
  ELSE IF doubleNlEnd(s, i) # 0
    THEN <<s[i]>> \o collapseNewlines(s, doubleNlEnd(s, i))
  ELSE <<s[i]>> \o collapseNewlines(s, i + 1)

\* /^\n+/: the number of leading newlines
RECURSIVE leadingNls(_)
leadingNls(s) ==
  IF s # <<>> /\ Head(s).c = NL THEN 1 + leadingNls(Tail(s)) ELSE 0

\* the text _serializeTextNode passes to cb
textNodeOutput(d, n) ==
  LET v  == d[n].value
      t  == trailingNlAt(v)
      r1 == IF t = 0 THEN v ELSE SubSeq(v, 1, t - 1)
      r2 == IF \/ Len(d[d[n].parent].kids) # 1
               \/ ~isBlockNode(d, d[n].parent)
               \/ doubleNewlineCount(v, 1) # 1
              THEN collapseNewlines(r1, 1) ELSE r1
  IN IF r2 # <<>> /\ Head(r2).c = NL THEN Tail(r2) ELSE r2

\* the quick check of WSP.escapeWikiText: text without RFC|ISBN|PMID that
\* does not match /^[ \t][^\s]+|[<>\[\]\-\+\|'!=#\*:;~{}]/ is returned as is
wtSpecial == {"<", ">", "[", "]", "-", "+", "|", "'", "!", "=", "#", "*", ":", ";", "~", "{", "}"}
needsNoEscape(s) ==
  /\ ~(Len(s) >= 2 /\ s[1].c \in {SP, "\t"} /\ ~IsWs(s[2].c))
  /\ \A i \in 1..Len(s) : s[i].c \notin wtSpecial

(***************************************************************************)
(* The tag handlers' sepnls callbacks and WSP.updateSeparatorConstraints   *)
(* on two nodes.                                                           *)
(***************************************************************************)
\* /\n(?!$)/: a newline that is not the last character
hasInnerNl(s) == \E i \in 1..Len(s) : s[i].c = NL /\ i < Len(s)

\* tagHandlers.p.sepnls.before(node, otherNode)
pBefore(d, n, o) ==
  IF d[o].name = "body"
    THEN CbResult(0, 1)
  ELSE IF \/ (o = domPreviousSibling(d, n) /\ d[o].name = "p")
          \/ /\ d[o].name = "#text"
             /\ o = previousNonSepSibling(d, n)
             /\ ~(isBlockNode(d, d[n].parent) \/ hasInnerNl(d[o].value))
    THEN CbResult(2, 2)
  ELSE CbResult(1, 2)

\* tagHandlers.p.sepnls.after(node, otherNode)
pAfter(d, n, o) ==
  IF ~(lastChild(d, n) # NoNode /\ d[lastChild(d, n)].name = "br") /\ d[o].name = "p"
    THEN CbResult(2, 2) ELSE CbResult(0, 2)

\* tagHandlers.br.sepnls.before(node, otherNode)
brBefore(d, n, o) ==
  IF o = d[n].parent /\ d[o].name = "p" THEN CbResult(1, 2) ELSE CbResult(Undef, Undef)

\* DU.isList / DU.isListElt / DU.isListOrListElt
isList(d, n) == n # NoNode /\ d[n].name \in {"ul", "ol", "dl"}
isListElt(d, n) == n # NoNode /\ d[n].name \in {"li", "dt", "dd"}
isListOrListElt(d, n) == isList(d, n) \/ isListElt(d, n)

wtListEOL_noExtraNewline(d, n, o) ==
  IF ~isElt(d, o) THEN CbResult(0, 2)
  ELSE IF nextNonSepSibling(d, n) = o /\ d[o].tplSrc # <<>> THEN CbResult(0, 2)
  ELSE IF nextNonSepSibling(d, n) = o /\ isListOrListElt(d, o)
    THEN IF isListElt(d, n) \/ d[d[n].parent].name \in {"li", "dd"}
           THEN CbResult(1, 1)
         ELSE CbResult(1, 2)
  ELSE CbResult(1, 2)

\* wtListEOL(node, otherNode); dp.src is defined on template roots only and
\* no list of these documents has html syntax
wtListEOL(d, n, o) ==
  IF ~isElt(d, o) THEN CbResult(0, 2)
  ELSE IF nextNonSepSibling(d, n) = o /\ d[o].tplSrc # <<>> THEN CbResult(0, 2)
  ELSE IF nextNonSepSibling(d, n) = o /\ isListOrListElt(d, o)
    THEN IF isList(d, n) /\ d[o].name = d[n].name THEN CbResult(2, 2)
         ELSE IF isListElt(d, n) \/ d[d[n].parent].name \in {"li", "dd"}
           THEN CbResult(1, 1)
         ELSE CbResult(1, 2)
  ELSE CbResult(1, 2)

\* the sepnls.before of the handlers buildListHandler makes, and of li
listBefore(d, n, o) ==
  IF isText(d, o) /\ isListElt(d, d[n].parent) THEN CbResult(0, 1) ELSE CbResult(1, 2)
liBefore(d, n, o) ==
  IF o = d[n].parent /\ d[o].name \in {"ul", "ol"}
    THEN CbResult(Undef, Undef) ELSE CbResult(1, 2)
\* tagHandlers.li.sepnls.firstChild(node, otherNode)
liFirstChild(d, n, o) ==
  IF ~isList(d, o) THEN CbResult(0, 0) ELSE CbResult(Undef, Undef)

\* WSP._getDOMHandler(node, state, cb) with act = state.activeTemplateId:
\* the no-op handler of an element of the active template, the handler of
\* a template root (typeof mw:Object, dp.src defined), or the tag handler
\* of the node name
getDOMHandler(d, act, n) ==
  IF ~isElt(d, n) THEN "none"
  ELSE IF act # NoAbout /\ d[n].about = act THEN "noop"
  ELSE IF d[n].tplSrc # <<>> THEN "template"
  ELSE d[n].name

\* handler.sepnls.before / after / firstChild / lastChild of the handler
\* _getDOMHandler finds for node n, called with (n, o)
sepnlsBefore(d, act, n, o) ==
  CASE getDOMHandler(d, act, n) = "p"  -> pBefore(d, n, o)
    [] getDOMHandler(d, act, n) = "h2" -> CbResult(1, 2)
    [] getDOMHandler(d, act, n) = "hr" -> CbResult(1, 2)
    [] getDOMHandler(d, act, n) = "br" -> brBefore(d, n, o)
    [] getDOMHandler(d, act, n) = "pre" -> CbResult(1, Undef)
    [] getDOMHandler(d, act, n) \in {"ul", "ol"} -> listBefore(d, n, o)
    [] getDOMHandler(d, act, n) = "li" -> liBefore(d, n, o)
    [] getDOMHandler(d, act, n) = "template" -> CbResult(0, 2)
    [] OTHER -> NoCallback
sepnlsAfter(d, act, n, o) ==
  CASE getDOMHandler(d, act, n) = "p"  -> pAfter(d, n, o)
    [] getDOMHandler(d, act, n) = "h2" -> CbResult(1, 2)
    [] getDOMHandler(d, act, n) = "hr" -> CbResult(0, 2)
    [] getDOMHandler(d, act, n) = "br" -> CbResult(1, Undef)
    [] getDOMHandler(d, act, n) = "pre" -> CbResult(1, Undef)
    [] getDOMHandler(d, act, n) \in {"ul", "ol", "li"} -> wtListEOL(d, n, o)
    [] OTHER -> NoCallback
sepnlsFirstChild(d, act, n, o) ==
  IF getDOMHandler(d, act, n) = "body" THEN CbResult(0, 1)
  ELSE IF getDOMHandler(d, act, n) = "li" THEN liFirstChild(d, n, o)
  ELSE NoCallback
sepnlsLastChild(d, act, n, o) ==
  IF getDOMHandler(d, act, n) = "body" THEN CbResult(0, 1) ELSE NoCallback

\* WSP.updateSeparatorConstraints(state, nodeA, handlerA, nodeB, handlerB):
\* the new state.sep.constraints
updateConstraintsFor(d, act, cur, a, b) ==
  IF domNextSibling(d, a) = b
    THEN updateSeparatorConstraints(cur, sepnlsAfter(d, act, a, b), sepnlsBefore(d, act, b, a))
  ELSE IF d[b].parent = a
    THEN updateSeparatorConstraints(cur, sepnlsFirstChild(d, act, a, b), sepnlsBefore(d, act, b, a))
  ELSE IF d[a].parent = b
    THEN updateSeparatorConstraints(cur, sepnlsAfter(d, act, a, b), sepnlsLastChild(d, act, b, a))
  ELSE updateSeparatorConstraints(cur, sepnlsAfter(d, act, a, b), sepnlsBefore(d, act, b, a))

(***************************************************************************)
(* The serializer state and the machine a run works on: the state, the     *)
(* DOM, the page source, the text the sink got, the strings emitSep was    *)
(* given, and whether an exception is under way.                           *)
(***************************************************************************)
\* state.sep = {}; id tells one such object from the next
emptySep(id) ==
  [id |-> id, src |-> <<>>, constraints |-> NoConstraints,
   lastSourceNode |-> NoNode, lastSourceSep |-> <<>>]

\* Util.clone(this.initialState) and the assignments of serializeDOM before
\* the traversal starts
initialState(selserMode) ==
  [selserMode |-> selserMode,
   sep |-> [emptySep(0) EXCEPT !.lastSourceNode = Body],
   sepCtr |-> 1,
   onSOL |-> TRUE, escapeText |-> FALSE, atStartOfOutput |-> TRUE,
   wteHandlerStack |-> <<>>,
   chunkCB |-> "chunkCBWrapper",
   prevNode |-> NoNode, prevNodeUnmodified |-> FALSE, currNodeUnmodified |-> FALSE,
   inModifiedContent |-> FALSE,
   activeTemplateId |-> NoAbout,
   currLine |-> [text |-> <<>>],
   inIndentPre |-> FALSE,
   \* not fields of the state: the bits array of the running
   \* serializeChildrenToString, and the content variable of the pre handler
   bits |-> <<>>,
   content |-> <<>>,
   \* not a field of the state: the node whose non-empty chunk the sink got
   \* last
   lastContent |-> NoNode,
   \* nor is this: the text-node chunks handed to the sink since the last
   \* newline handed to it
   lineText |-> <<>>,
   \* nor this: what the selser branch did last: the node, its slice of the
   \* page source, what went to sep.src before the chunk, the chunk and what
   \* went to sep.src after it
   fromSrc |-> [node |-> NoNode, src |-> <<>>, leading |-> <<>>, out |-> <<>>,
                newSep |-> <<>>]]

\* the sink (the chunkCB the caller gave, or out.push): it throws when it
\* is handed the output of node m.fail; fail is Thrown from then on
Thrown == -2
\* what follows the last newline of s
RECURSIVE afterLastNl(_)
afterLastNl(s) ==
  IF ~HasNl(s) THEN s ELSE afterLastNl(Tail(s))
\* the text-node chunks since the last newline, after chunk was handed over
lineTextAfter(m, chunk, n, isOutput) ==
  IF HasNl(chunk)
    THEN IF isOutput /\ isText(m.dom, n) THEN afterLastNl(chunk) ELSE <<>>
    ELSE m.st.lineText \o (IF isOutput /\ isText(m.dom, n) THEN chunk ELSE <<>>)

\* appendToBits, the sink inside serializeChildrenToString, never throws
sink(m, chunk, n, isOutput) ==
  IF m.st.chunkCB = "appendToBits"
    THEN [m EXCEPT !.st.bits = @ \o chunk]
  ELSE IF isOutput /\ n = m.fail
    THEN [m EXCEPT !.exc = TRUE, !.fail = Thrown]
    ELSE [m EXCEPT !.out = @ \o chunk,
                   !.st.lineText = lineTextAfter(m, chunk, n, isOutput)]

\* state.emitSep(sep, node, cb)
emitSep(m, sep, n) ==
  LET m1 == sink(m, sep, n, FALSE)
  IN [m1 EXCEPT !.seps = Append(@, sep),
                !.st.sep = emptySep(m.st.sepCtr),
                !.st.sepCtr = @ + 1,
                !.st.onSOL = IF HasNl(sep) THEN TRUE ELSE @]

(***************************************************************************)
(* WSP.emitSeparator and state.emitSepAndOutput                            *)
(***************************************************************************)
NoDsr == <<>>
hasDsr(d, n) == d[n].dsr # NoDsr

\* dsrA of a text or comment prevNode that follows the element ps
dsrAfterSibling(d, prev, ps) ==
  IF ps # NoNode /\ isElt(d, ps) /\ hasDsr(d, ps) /\ d[ps].dsr[2] # Undef
    THEN << d[ps].dsr[2],
            d[ps].dsr[2] + Len(d[prev].value) + (IF isComment(d, prev) THEN 7 ELSE 0),
            0, 0 >>
    ELSE NoDsr

\* dsrA: the dsr used for state.sep.lastSourceNode (prevNode)
dsrOfPrev(d, prev, n) ==
  IF ~isElt(d, prev)
    THEN IF /\ domNextSibling(d, prev) = NoNode
            /\ d[prev].parent # NoNode
            /\ d[prev].parent # n
            /\ hasDsr(d, d[prev].parent)
            /\ d[d[prev].parent].dsr[4] = 0
           THEN d[d[prev].parent].dsr
           ELSE dsrAfterSibling(d, prev, domPreviousSibling(d, prev))
    ELSE d[prev].dsr

\* the walk up the ancestors in the lastChild scenario
RECURSIVE dsrBearingAncestor(_, _)
dsrBearingAncestor(d, n) ==
  IF /\ domNextSibling(d, n) = NoNode
     /\ d[n].name # "body"
     /\ (~hasDsr(d, n) \/ d[n].dsr[1] = Undef \/ d[n].dsr[2] = Undef)
    THEN dsrBearingAncestor(d, d[n].parent)
    ELSE n

\* dsrB of a text or comment node in a parent of zero start-tag width
dsrInParent(dsrB, sepTxt) ==
  IF ~sepTxt.ok THEN NoDsr
  ELSE IF dsrB[1] # Undef /\ sepTxt.len > 0 THEN [dsrB EXCEPT ![1] = @ + sepTxt.len]
  ELSE dsrB

\* dsrB: the dsr used for the node about to produce output
dsrOfNode(d, prev, n) ==
  IF ~isElt(d, n)
    THEN IF /\ d[n].parent # prev
            /\ hasDsr(d, d[n].parent)
            /\ d[d[n].parent].dsr[3] = 0
           THEN dsrInParent(d[d[n].parent].dsr, precedingSeparatorTxt(d, n, n))
           ELSE NoDsr
    ELSE IF d[prev].parent = n THEN d[dsrBearingAncestor(d, n)].dsr
    ELSE d[n].dsr

\* an optional string: def = FALSE is undefined
NoString == [def |-> FALSE, s |-> <<>>]
Str(s) == [def |-> TRUE, s |-> s]

\* the separator found in the page source between dsrA and dsrB
sepFromDsr(text, dsrA, dsrB) ==
  IF dsrA[1] <= dsrB[1]
    THEN IF dsrB[2] <= dsrA[2]
           THEN IF dsrA[1] = dsrB[1] /\ dsrA[2] = dsrB[2] THEN Str(<<>>)
                ELSE IF dsrA[3] # Undef THEN Str(substring(text, dsrA[1] + dsrA[3], dsrB[1]))
                ELSE NoString
         ELSE IF dsrA[2] <= dsrB[1] THEN Str(substring(text, dsrA[2], dsrB[1]))
         ELSE IF dsrB[4] # Undef THEN Str(substring(text, dsrA[2], dsrB[2] - dsrB[4]))
         ELSE NoString
  ELSE IF dsrA[2] <= dsrB[2]
    THEN IF dsrB[4] # Undef THEN Str(substring(text, dsrA[2], dsrB[2] - dsrB[4]))
         ELSE NoString
  ELSE NoString

\* string + undefined
plusUndefined(s) == s \o Lit(<<"u", "n", "d", "e", "f", "i", "n", "e", "d">>)

\* sep = state.sep.lastSourceSep + sep
withLastSourceSep(last, sep) ==
  IF last = <<>> THEN sep
  ELSE IF sep.def THEN Str(last \o sep.s)
  ELSE Str(plusUndefined(last))

sepBetween(m, dsrA, dsrB) ==
  IF isValidDSR(dsrA) /\ isValidDSR(dsrB)
    THEN withLastSourceSep(m.st.sep.lastSourceSep, sepFromDsr(m.src, dsrA, dsrB))
    ELSE NoString

\* the separator emitSeparator computes before it verifies it
sepFromSource(m, n) ==
  IF m.src # <<>> /\ n # NoNode /\ m.st.sep.lastSourceNode # NoNode
    THEN sepBetween(m, dsrOfPrev(m.dom, m.st.sep.lastSourceNode, n),
                       dsrOfNode(m.dom, m.st.sep.lastSourceNode, n))
    ELSE NoString

\* {a:{}, b:{}, max:0}
maxZero == [set |-> TRUE, min |-> Undef, max |-> 0, a |-> EmptyC, b |-> EmptyC]

\* the separator made when the one from the source cannot be used
madeSeparator(m, n) ==
  IF m.st.sep.constraints.set \/ m.st.sep.src # <<>>
    THEN Str(makeSeparator(m.st.sep.src, m.dom[n].name,
                           IF m.st.sep.constraints.set THEN m.st.sep.constraints
                                                       ELSE maxZero,
                           m.st.atStartOfOutput))
    ELSE NoString

\* "Verify that the separator is really one."
verifiedSep(m, n, sep) ==
  IF \/ ~sep.def
     \/ ~isValidSep(sep.s)
     \/ (m.st.sep.src # <<>> /\ ~SameText(m.st.sep.src, sep.s))
    THEN madeSeparator(m, n)
    ELSE sep

emitSepIfDefined(m, n, sep) == IF sep.def THEN emitSep(m, sep.s, n) ELSE m

\* WSP.emitSeparator(state, cb, node)
emitSeparator(m, n) == emitSepIfDefined(m, n, verifiedSep(m, n, sepFromSource(m, n)))

\* state.getOrigSrc(start, end)
getOrigSrc(m, start, end) == substring(m.src, start, end)

\* lit occurs in s
HasLit(s, lit) == IndexOf(s, 1, lit) # 0
\* (?:\r?\n)*$ at position i
RECURSIVE nlSuffixAt(_, _)
nlSuffixAt(s, i) ==
  IF i > Len(s) THEN TRUE
  ELSE IF s[i].c = NL THEN nlSuffixAt(s, i + 1)
  ELSE IF s[i].c = CR /\ i < Len(s) /\ s[i + 1].c = NL THEN nlSuffixAt(s, i + 2)
  ELSE FALSE
\* text.match(/^((?:.*?|[\r\n]+[^\r\n]|[~]{3,5})*?)((?:\r?\n)*)$/): the
\* positions where group 2 can start; group 1 is empty or ends with a
\* character that is no \r and no \n
escapedTextCuts(s) ==
  {i \in 1..(Len(s) + 1) :
     /\ nlSuffixAt(s, i)
     /\ (i = 1 \/ s[i - 1].c \notin {NL, CR})}
\* escapedText(text): reading match[1] of a null match throws a TypeError
escapedText(s) ==
  IF escapedTextCuts(s) = {} THEN [threw |-> TRUE, text |-> <<>>]
  ELSE [threw |-> FALSE,
        text |-> Lit(<<"<", "n", "o", "w", "i", "k", "i", ">">>)
                   \o SubSeq(s, 1, leastOf(escapedTextCuts(s)) - 1)
                   \o Lit(<<"<", "/", "n", "o", "w", "i", "k", "i", ">">>)
                   \o SubSeq(s, leastOf(escapedTextCuts(s)), Len(s))]
unescaped(s) == [threw |-> FALSE, text |-> s]

\* /\b(RFC|ISBN|PMID)\b/
isWordCh(c) == c \in {"x", "y", "a", "c", "t", "R", "F", "C", "I", "S", "B", "N", "P", "M", "D"}
wordAt(s, i, lit) ==
  /\ At(s, i, lit)
  /\ (i = 1 \/ ~isWordCh(s[i - 1].c))
  /\ (i + Len(lit) > Len(s) \/ ~isWordCh(s[i + Len(lit)].c))
urlTriggers(s) ==
  \E i \in 1..Len(s) :
    \/ wordAt(s, i, <<"R", "F", "C">>)
    \/ wordAt(s, i, <<"I", "S", "B", "N">>)
    \/ wordAt(s, i, <<"P", "M", "I", "D">>)
\* /\{\{\{|\{\{|\}\}\}|\}\}/
hasTemplateMarkers(s) == HasLit(s, <<"{", "{">>) \/ HasLit(s, <<"}", "}">>)
\* /\n./ and /~{3,5}/
hasNewlines(s) == \E i \in 1..(Len(s) - 1) : s[i].c = NL /\ s[i + 1].c \notin {NL, CR}
hasTildes(s) == HasLit(s, <<"~", "~", "~">>)
\* /''|[<>]|\[.*\]|\]|(=(\n|$))/
needsEscapeAnywhere(s) ==
  \/ HasLit(s, <<"'", "'">>)
  \/ \E i \in 1..Len(s) : s[i].c \in {"<", ">", "]"}
  \/ \E i \in 1..Len(s) : s[i].c = "=" /\ (i = Len(s) \/ s[i + 1].c = NL)
\* /^[ \t#*:;=]|[<\[\]>\|'!]|\-\-\-\-/
needsEscapeOnSOL(s) ==
  \/ (s # <<>> /\ s[1].c \in {SP, "\t", "#", "*", ":", ";", "="})
  \/ \E i \in 1..Len(s) : s[i].c \in {"<", "[", "]", ">", "|", "'", "!"}
  \/ HasLit(s, <<"-", "-", "-", "-">>)
\* /(^ |\n )[^\s]+/
startsIndented(s) ==
  \/ (Len(s) >= 2 /\ s[1].c = SP /\ ~IsWs(s[2].c))
  \/ \E i \in 1..(Len(s) - 2) :
       s[i].c = NL /\ s[i + 1].c = SP /\ ~IsWs(s[i + 2].c)
\* text.replace(/<(\/?nowiki)>/g, '&lt;$1&gt;')
RECURSIVE escapeNowikiTags(_, _)
escapeNowikiTags(s, i) ==
  IF i > Len(s) THEN <<>>
  ELSE IF At(s, i, <<"<", "n", "o", "w", "i", "k", "i", ">">>)
    THEN Lit(<<"&", "l", "t", ";", "n", "o", "w", "i", "k", "i", "&", "g", "t", ";">>)
           \o escapeNowikiTags(s, i + 8)
  ELSE IF At(s, i, <<"<", "/", "n", "o", "w", "i", "k", "i", ">">>)
    THEN Lit(<<"&", "l", "t", ";", "/", "n", "o", "w", "i", "k", "i", "&", "g", "t", ";">>)
           \o escapeNowikiTags(s, i + 9)
  ELSE <<s[i]>> \o escapeNowikiTags(s, i + 1)

\* WSP.escapeWikiText(state, text, opts) on the fields of state it reads:
\* onSOL, inIndentPre, inPHPBlock, what the escaper on top of
\* wteHandlerStack answers ("none" for an empty stack), what
\* hasWikitextTokens answers, and what the checks of the current line after
\* line 713 decide
escapeSol(e) == e.onSOL /\ ~e.inIndentPre /\ ~e.inPHPBlock
escapeByTokens(e, text) ==
  IF e.hasWikitextTokens \/ hasTildes(text) THEN escapedText(escapeNowikiTags(text, 1))
  ELSE IF e.lineEscapes THEN escapedText(escapeNowikiTags(text, 1))
  ELSE unescaped(escapeNowikiTags(text, 1))
escapeSlow(e, text) ==
  IF /\ ~urlTriggers(text) /\ ~hasNewlines(text) /\ ~hasTildes(text)
     /\ \/ (~escapeSol(e) /\ ~needsEscapeAnywhere(text))
        \/ (escapeSol(e) /\ ~needsEscapeOnSOL(text))
    THEN unescaped(text)
  ELSE IF escapeSol(e) /\ startsIndented(text) THEN escapedText(text)
  ELSE escapeByTokens(e, text)
escapeWikiTextOn(e, text) ==
  IF ~urlTriggers(text) /\ needsNoEscape(text) THEN unescaped(text)
  ELSE IF e.wteHandler = "accepts" THEN escapedText(text)
  ELSE IF hasTemplateMarkers(text) THEN escapedText(text)
  ELSE escapeSlow(e, text)

\* WSP.escapeWikiText(state, text, opts) in a run: the quick check settles
\* every text of the documents of the runs (QuickCheckOnly)
escapeWikiText(m, text) ==
  escapeWikiTextOn([onSOL |-> m.st.onSOL, inIndentPre |-> m.st.inIndentPre,
                    inPHPBlock |-> FALSE, wteHandler |-> "none",
                    hasWikitextTokens |-> FALSE, lineEscapes |-> FALSE], text).text

\* "Emit separator first"
origSepOf(m, n) == getOrigSrc(m, m.dom[m.st.prevNode].dsr[2], m.dom[n].dsr[1])
emitSepBefore(m, n) ==
  IF /\ m.st.prevNodeUnmodified /\ m.st.currNodeUnmodified
     /\ isValidSep(origSepOf(m, n))
    THEN emitSep(m, origSepOf(m, n), n)
    ELSE emitSeparator(m, n)

\* "Update state" after cb(res, node), which may have thrown
afterOutput(m, res, n) ==
  IF m.exc THEN m
  ELSE [m EXCEPT !.st.sep.lastSourceNode = n,
                 !.st.sep.lastSourceSep = m.st.sep.src,
                 !.st.onSOL = IF ~isValidSep(res) THEN FALSE ELSE @]

\* if (this.onSOL) this.resetCurrLine(node), and "Emitting text that has
\* not been escaped": this.currLine.text += res
currLineText(m, res, origRes, n) ==
  (IF m.st.onSOL THEN <<>> ELSE m.st.currLine.text)
    \o (IF isText(m.dom, n) /\ res = origRes THEN res ELSE <<>>)

outputEscaped(m, res, origRes, n) ==
  afterOutput(
    sink([m EXCEPT !.st.prevNodeUnmodified = m.st.currNodeUnmodified,
                   !.st.prevNode = n,
                   !.st.currNodeUnmodified = FALSE,
                   !.st.currLine.text = currLineText(m, res, origRes, n),
                   !.st.escapeText = FALSE,
                   !.st.lastContent = IF res # <<>> /\ n # m.fail THEN n ELSE @,
                   !.slowPath = @ \/ (m.st.escapeText /\ ~needsNoEscape(origRes))],
         res, n, TRUE),
    res, n)

outputAfterSep(m, res, n) ==
  outputEscaped(m, IF m.st.escapeText THEN escapeWikiText(m, res) ELSE res, res, n)

\* state.emitSepAndOutput(res, node, cb)
emitSepAndOutput(m, res, n) == outputAfterSep(emitSepBefore(m, n), res, n)

\* state.chunkCB: the chunkCB of serializeDOM (chunkCBWrapper bound to the
\* sink), or the cb of serializeChildrenToString
afterChunk(m) ==
  IF m.exc \/ m.st.chunkCB = "appendToBits" THEN m
  ELSE [m EXCEPT !.st.atStartOfOutput = FALSE]
chunkCB(m, chunk, n) == IF m.exc THEN m ELSE afterChunk(emitSepAndOutput(m, chunk, n))

(***************************************************************************)
(* The documents serializeDOM is run on: a page source and the DOM the     *)
(* parser made of it, top-level item by top-level item.                    *)
(***************************************************************************)
ItemKinds == {"p", "h2", "hi", "hr", "pbr", "nl", "c", "cc"}
\* items with several children: a paragraph of two italic runs
\* and the two elements a transclusion {{t}} expands to, the second without
\* ("tt") or with ("ttd") a dsr of its own, an indent-pre, and a paragraph
\* with a line break between two texts, and a paragraph that holds an
\* external link [u x]
WideKinds == {"pii", "tt", "ttd", "pre", "tbt", "pa"}
\* lists of one item, and the blank line the parser needs between two lists
ListKinds == {"ul", "ol", "nl2"}
ElementKinds ==
  {"p", "h2", "hi", "hr", "pbr", "pii", "tt", "ttd", "pre", "tbt", "ul", "ol", "pa"}
Transclusion == <<"{", "{", "t", "}", "}">>

\* the wikitext of an item
itemSource(k) ==
  CASE k = "p"   -> <<"x">>
    [] k = "h2"  -> <<"=", "=", "x", "=", "=">>
    [] k = "hi"  -> <<"=", "=", "'", "'", "x", "'", "'", "=", "=">>
    [] k = "hr"  -> <<"-", "-", "-", "-">>
    [] k = "pbr" -> <<NL>>
    [] k = "nl"  -> <<NL>>
    [] k = "c"   -> CommentOpen \o <<"c">> \o CommentClose
    [] k = "cc"  -> CommentOpen \o EscapedClose \o EscapedClose \o CommentClose
    [] k = "pii" -> <<"'", "'", "x", "'", "'", SP, "'", "'", "x", "'", "'">>
    [] k = "tt"  -> Transclusion
    [] k = "ttd" -> Transclusion
    [] k = "pre" -> <<SP, "x">>
    [] k = "tbt" -> <<"x", NL, NL, "y">>
    [] k = "ul"  -> <<"*", "a">>
    [] k = "ol"  -> <<"#", "a">>
    [] k = "nl2" -> <<NL, NL>>
    [] k = "pa"  -> <<"[", "u", SP, "x", "]">>

\* the nodes of an item whose source starts at offset s and whose first
\* node gets id n; the first node is the child of body
itemNodes(k, s, n, mark) ==
  CASE k = "p"   -> << Node("p", Body, <<n + 1>>, <<>>, <<s, s + 1, 0, 0>>, mark),
                       Node("#text", n, <<>>, Src(<<"x">>, s), NoDsr, FALSE) >>
    [] k = "h2"  -> << Node("h2", Body, <<n + 1>>, <<>>, <<s, s + 5, 2, 2>>, mark),
                       Node("#text", n, <<>>, Src(<<"x">>, s + 2), NoDsr, FALSE) >>
    [] k = "hi"  -> << Node("h2", Body, <<n + 1>>, <<>>, <<s, s + 9, 2, 2>>, mark),
                       Node("i", n, <<n + 2>>, <<>>, <<s + 2, s + 7, 2, 2>>, FALSE),
                       Node("#text", n + 1, <<>>, Src(<<"x">>, s + 4), NoDsr, FALSE) >>
    [] k = "hr"  -> << Node("hr", Body, <<>>, <<>>, <<s, s + 4, 0, 0>>, mark) >>
    [] k = "pbr" -> << Node("p", Body, <<n + 1>>, <<>>, <<s, s + 1, 0, 0>>, mark),
                       Node("br", n, <<>>, <<>>, <<s, s + 1, 0, 0>>, FALSE) >>
    [] k = "nl"  -> << Node("#text", Body, <<>>, Src(<<NL>>, s), NoDsr, FALSE) >>
    [] k = "c"   -> << Node("#comment", Body, <<>>, Src(<<"c">>, s + 4), NoDsr, FALSE) >>
    [] k = "cc"  -> << Node("#comment", Body, <<>>, Lit(CommentClose \o CommentClose),
                            NoDsr, FALSE) >>
    [] k = "pii" -> << Node("p", Body, <<n + 1, n + 3, n + 4>>, <<>>, <<s, s + 11, 0, 0>>, mark),
                       Node("i", n, <<n + 2>>, <<>>, <<s, s + 5, 2, 2>>, FALSE),
                       Node("#text", n + 1, <<>>, Src(<<"x">>, s + 2), NoDsr, FALSE),
                       Node("#text", n, <<>>, Src(<<SP>>, s + 5), NoDsr, FALSE),
                       Node("i", n, <<n + 5>>, <<>>, <<s + 6, s + 11, 2, 2>>, FALSE),
                       Node("#text", n + 4, <<>>, Src(<<"x">>, s + 8), NoDsr, FALSE) >>
    [] k = "tt"  -> << TplNode("span", Body, <<>>, <<s, s + 5, 0, 0>>, mark, n, Lit(Transclusion)),
                       TplNode("span", Body, <<>>, NoDsr, FALSE, n, <<>>) >>
    [] k = "ttd" -> << TplNode("span", Body, <<>>, <<s, s + 5, 0, 0>>, mark, n, Lit(Transclusion)),
                       TplNode("span", Body, <<>>, <<s, s + 5, 0, 0>>, FALSE, n, <<>>) >>
    [] k = "pre" -> << Node("pre", Body, <<n + 1>>, <<>>, <<s, s + 2, 1, 0>>, mark),
                       Node("#text", n, <<>>, Src(<<"x">>, s + 1), NoDsr, FALSE) >>
    [] k = "tbt" -> << Node("p", Body, <<n + 1, n + 2, n + 3>>, <<>>, <<s, s + 4, 0, 0>>, mark),
                       Node("#text", n, <<>>, Src(<<"x">>, s), NoDsr, FALSE),
                       Node("br", n, <<>>, <<>>, NoDsr, FALSE),
                       Node("#text", n, <<>>, Src(<<"y">>, s + 3), NoDsr, FALSE) >>
    [] k \in {"ul", "ol"} ->
                    << Node(k, Body, <<n + 1>>, <<>>, <<s, s + 2, 0, 0>>, mark),
                       Node("li", n, <<n + 2>>, <<>>, <<s, s + 2, 1, 0>>, FALSE),
                       Node("#text", n + 1, <<>>, Src(<<"a">>, s + 1), NoDsr, FALSE) >>
    [] k = "nl2" -> << Node("#text", Body, <<>>, Src(<<NL, NL>>, s), NoDsr, FALSE) >>
    [] k = "pa"  -> << Node("p", Body, <<n + 1>>, <<>>, <<s, s + 5, 0, 0>>, mark),
                       Node("a", n, <<n + 2>>, <<>>, <<s, s + 5, 3, 1>>, FALSE),
                       Node("#text", n + 1, <<>>, Src(<<"x">>, s + 3), NoDsr, FALSE) >>

\* the children of body an item makes
itemTops(k, n) == IF k \in {"tt", "ttd"} THEN <<n, n + 1>> ELSE <<n>>

\* the page and the DOM of a sequence of items; marks[i] is the diff mark
\* of the i-th item's element
RECURSIVE buildDoc(_, _, _, _)
buildDoc(items, marks, i, acc) ==
  IF i > Len(items) THEN
    [src |-> acc.src,
     dom |-> [acc.dom EXCEPT ![Body].dsr = <<0, Len(acc.src), 0, 0>>]]
  ELSE LET n == Len(acc.dom) + 1
           s == Len(acc.src)
       IN buildDoc(items, marks, i + 1,
            [src |-> acc.src \o Src(itemSource(items[i]), s),
             dom |-> [acc.dom EXCEPT ![Body].kids = @ \o itemTops(items[i], n)]
                       \o itemNodes(items[i], s, n, marks[i])])

emptyDoc == [src |-> <<>>, dom |-> << Node("body", NoNode, <<>>, <<>>, NoDsr, FALSE) >>]
Doc(items, marks) == buildDoc(items, marks, 1, emptyDoc)

\* at most MaxItems top-level items, at most MaxWideItems when one of them
\* has several inline children
ItemSeqs ==
  UNION {[1..k -> ItemKinds] : k \in 0..MaxItems}
    \cup UNION {[1..k -> ItemKinds \cup WideKinds] : k \in 0..MaxWideItems}
    \cup UNION {[1..k -> ListKinds] : k \in 0..MaxItems}
\* diff marks sit on elements only
MarksFor(items) ==
  {mk \in [1..Len(items) -> BOOLEAN] :
     \A i \in 1..Len(items) : mk[i] => items[i] \in ElementKinds}
NoMarks(items) == [i \in 1..Len(items) |-> FALSE]
\* a page source is the source of the DOM: the parser makes two lists only
\* of list lines that a blank line parts
Parsed(items) ==
  \A i \in 1..(Len(items) - 1) :
    ~(items[i] \in {"ul", "ol"} /\ items[i + 1] \in {"ul", "ol"})

(***************************************************************************)
(* The steps of WSP._serializeNode on the machine.                         *)
(***************************************************************************)
\* WSP.handleSeparatorText(node, state): the machine after the call and
\* what the call returns
handleSeparatorText(m, n) ==
  LET d == m.dom
      v == d[n].value
  IN IF isText(d, n)
       THEN IF AllWs(v)
              THEN [m |-> [m EXCEPT !.st.sep.src = @ \o v], ret |-> TRUE]
            ELSE IF leadingNls(v) > 0
              THEN [m |-> [m EXCEPT !.st.sep.src = @ \o SubSeq(v, 1, leadingNls(v))],
                    ret |-> FALSE]
            ELSE [m |-> m, ret |-> FALSE]
     ELSE IF isComment(d, n)
       THEN [m |-> [m EXCEPT !.st.sep.src = @ \o commentWT(v)], ret |-> TRUE]
     ELSE [m |-> m, ret |-> FALSE]

\* this.updateSeparatorConstraints(state, a, handler of a, b, handler of b)
\* when a is a node (not null)
updateSep(m, a, b) ==
  IF m.exc \/ a = NoNode \/ b = NoNode THEN m
  ELSE [m EXCEPT !.st.sep.constraints =
                    updateConstraintsFor(m.dom, m.st.activeTemplateId, @, a, b)]

\* "Move trailing newlines into the next separator"
trailingToSep(m, v, t) ==
  IF ~m.exc /\ t # 0 /\ m.st.sep.src = <<>>
    THEN [m EXCEPT !.st.sep.src = SubSeq(v, t, Len(v)),
                   !.st.sep.lastSourceSep = SubSeq(v, t, Len(v))]
    ELSE m

\* WSP._serializeTextNode(node, state, cb)
serializeTextNode(m, n) ==
  trailingToSep(chunkCB([m EXCEPT !.st.escapeText = TRUE], textNodeOutput(m.dom, n), n),
                m.dom[n].value, trailingNlAt(m.dom[n].value))

\* case node.TEXT_NODE / case node.COMMENT_NODE of _serializeNode, after
\* handleSeparatorText
serializeUnlessSep(h, n) ==
  IF h.ret THEN h.m
  ELSE IF isComment(h.m.dom, n) THEN chunkCB(h.m, commentWT(h.m.dom[n].value), n)
  ELSE updateSep(
         serializeTextNode(updateSep(h.m, getPrevSeparatorElement(h.m.dom, n), n), n),
         n, getNextSeparatorElement(h.m.dom, n))
serializeTextOrComment(m, n) == serializeUnlessSep(handleSeparatorText(m, n), n)

\* the element can be serialized from the page source
fromSource(m, n) ==
  /\ m.st.selserMode /\ ~m.st.inModifiedContent
  /\ isValidDSR(m.dom[n].dsr)
  /\ ~hasCurrentDiffMark(m.dom, n)

\* src.match(/((?:\s|<!--([^\-]|-(?!->))*-->)+)$/): the position (1-based)
\* the match starts at, 0 for no match
trailingSepAt(s) ==
  IF \E i \in 1..Len(s) : SepRun(s, i) = Len(s) + 1
    THEN leastOf({i \in 1..Len(s) : SepRun(s, i) = Len(s) + 1})
    ELSE 0

\* state.sep.src = (state.sep.src || '') + newSep, unless cb threw
appendToSep(m, newSep) == IF m.exc THEN m ELSE [m EXCEPT !.st.sep.src = @ \o newSep]

\* out after the two substring calls, and newSep
strippedOut(s, offset, tpos) ==
  IF tpos # 0 THEN substring(substringFrom(s, offset), 0, (tpos - 1) - offset)
              ELSE substringFrom(s, offset)
newSepOf(s, tpos) == IF tpos # 0 THEN SubSeq(s, tpos, Len(s)) ELSE <<>>

\* the selser branch with src the node's source, offset the length of the
\* leading separator stripped and tpos the position (1-based) of the
\* trailing separator stripped, 0 for none
serializeStripped(m, n, s, offset, tpos) ==
  appendToSep(
    chunkCB([m EXCEPT !.st.sep.src = @ \o SubSeq(s, 1, offset),
                      !.dom[n].dsr[1] = @ + offset,
                      !.dom[n].dsr[2] = IF tpos # 0 THEN @ - (tpos - 1) ELSE @,
                      !.st.currNodeUnmodified = TRUE,
                      !.st.fromSrc = [node |-> n, src |-> s,
                                      leading |-> SubSeq(s, 1, offset),
                                      out |-> strippedOut(s, offset, tpos),
                                      newSep |-> newSepOf(s, tpos)]],
            strippedOut(s, offset, tpos), n),
    newSepOf(s, tpos))

serializeSlice(m, n, s) ==
  serializeStripped(m, n, s,
    IF m.dom[n].name # "pre" /\ hasCurrentDiffMark(m.dom, domPreviousSibling(m.dom, n))
      THEN SepRun(s, 1) - 1 ELSE 0,
    IF hasCurrentDiffMark(m.dom, domNextSibling(m.dom, n)) THEN trailingSepAt(s) ELSE 0)

\* if (nodeTypeOf && nodeTypeOf.match(/\bmw:Object(\/[^\s]+|\b)/))
\*   state.activeTemplateId = node.getAttribute('about') || null
activateTemplate(m, n) ==
  IF ~m.exc /\ m.dom[n].tplSrc # <<>>
    THEN [m EXCEPT !.st.activeTemplateId = m.dom[n].about] ELSE m

\* the selser branch of _serializeNode, up to the end of the branch
serializeFromSource(m, n) ==
  activateTemplate(
    serializeSlice(m, n, getOrigSrc(m, m.dom[n].dsr[1], m.dom[n].dsr[2])), n)

\* WSP.emitWikitext(text, state, cb, node) on res = text.replace(/^\n/, '')
emitWikitextRes(m, res, n, t) ==
  trailingToSep(
    (LET m1 == chunkCB(m, IF t # 0 THEN SubSeq(res, 1, t - 1) ELSE res, n)
     IN IF m1.exc THEN m1 ELSE [m1 EXCEPT !.st.sep.lastSourceNode = n]),
    res, t)
emitWikitext(m, text, n) ==
  emitWikitextRes(m, IF text # <<>> /\ text[1].c = NL THEN Tail(text) ELSE text, n,
                  trailingNlAt(IF text # <<>> /\ text[1].c = NL THEN Tail(text) ELSE text))

\* WSP._hasPrecedingQuoteElements(node, state)
RECURSIVE firstWithPreviousSibling(_, _)
firstWithPreviousSibling(d, n) ==
  IF n = NoNode THEN NoNode
  ELSE IF domPreviousSibling(d, n) # NoNode THEN domPreviousSibling(d, n)
  ELSE firstWithPreviousSibling(d, d[n].parent)
RECURSIVE quoteDescent(_, _, _)
quoteDescent(d, n, last) ==
  IF ~isElt(d, n) THEN FALSE
  ELSE IF d[n].name \in {"i", "b"} /\ lastChild(d, n) # NoNode
          /\ d[lastChild(d, n)].name \in {"i", "b"}
    THEN last = n
  ELSE IF last = n THEN FALSE
  ELSE quoteDescent(d, lastChild(d, n), last)
hasPrecedingQuoteElements(m, n) ==
  IF m.st.sep.lastSourceNode = NoNode THEN FALSE
  ELSE quoteDescent(m.dom, firstWithPreviousSibling(m.dom, n), m.st.sep.lastSourceNode)

\* state.serializeChildren(node, chunkCB, wtEscaper) up to the loop: the
\* machine and the frame of the call
NoEscaper == "null"
Frame(f, n, child, oldSep, oldCB, esc, pc, depth) ==
  [f |-> f, node |-> n, child |-> child, oldSep |-> oldSep, oldCB |-> oldCB,
   esc |-> esc, pc |-> pc, depth |-> depth]
enterChildren(m, n, wtEscaper) ==
  [m |-> [m EXCEPT !.st.chunkCB = "chunkCBWrapper",
                   !.st.wteHandlerStack =
                      IF wtEscaper # NoEscaper THEN Append(@, wtEscaper) ELSE @],
   frame |-> Frame("serializeChildren", n, firstChild(m.dom, n), m.st.sep.id,
                   m.st.chunkCB, wtEscaper # NoEscaper, "loop", 0)]

\* state.serializeChildrenToString(node) up to the loop of serializeChildren:
\* oldSep = this.sep, this.sep = {}, and serializeChildren(node, cb) with the
\* cb that appends to bits; the frame keeps oldSep and the caller's bits,
\* and what state.onSOL was when the call was made
toStringFrame(m, n) ==
  Frame("serializeChildrenToString", n, NoNode, m.st.sep, m.st.chunkCB, FALSE,
        "emitSeparator", 0) @@ [bits |-> m.st.bits, onSOL |-> m.st.onSOL]
freshSep(m) ==
  [m EXCEPT !.st.sep = emptySep(m.st.sepCtr), !.st.sepCtr = @ + 1, !.st.bits = <<>>]
enterChildrenToString(m, n) ==
  [enterChildren(freshSep(m), n, NoEscaper) EXCEPT !.m.st.chunkCB = "appendToBits"]
\* state.serializeChildrenToString(node, wtEscaper, onSOL) with an onSOL
\* that is not undefined: this.onSOL = onSOL after this.sep = {}
enterChildrenToStringOnSOL(m, n, wtEscaper, onSOL) ==
  [enterChildren(freshSep([m EXCEPT !.st.onSOL = onSOL]), n, wtEscaper)
     EXCEPT !.m.st.chunkCB = "appendToBits"]

\* self.serializer.emitSeparator(this, appendToBits, node)
emitSeparatorToBits(m, n) ==
  [emitSeparator([m EXCEPT !.st.chunkCB = "appendToBits"], n)
     EXCEPT !.st.chunkCB = m.st.chunkCB]

\* serializeChildrenToString after serializeChildren has returned: the last
\* separator goes to bits, this.sep = oldSep, return bits.join('')
toStringReturn_sepNotRestored(m, f) ==
  [emitSeparatorToBits(m, f.node)
     EXCEPT !.st.content = emitSeparatorToBits(m, f.node).st.bits,
            !.st.bits = f.bits]
toStringReturn(m, f) ==
  [emitSeparatorToBits(m, f.node)
     EXCEPT !.st.sep = f.oldSep,
            !.st.content = emitSeparatorToBits(m, f.node).st.bits,
            !.st.bits = f.bits]

\* content.replace(/(\n(<!--(?:[^\-]|\-(?!\->))*\-\->)*)(?!$)/g, '$1 '): a space
\* after every newline, and the comments that follow it, that does not end
\* the content
RECURSIVE afterComments(_, _)
afterComments(s, i) ==
  IF CommentEnd(s, i) # 0 /\ CommentEnd(s, i) <= Len(s)
    THEN afterComments(s, CommentEnd(s, i)) ELSE i
RECURSIVE indentFrom(_, _)
indentFrom(s, i) ==
  IF i > Len(s) THEN <<>>
  ELSE IF s[i].c = NL /\ afterComments(s, i + 1) <= Len(s)
    THEN SubSeq(s, i, afterComments(s, i + 1) - 1) \o Lit(<<SP>>)
           \o indentFrom(s, afterComments(s, i + 1))
  ELSE <<s[i]>> \o indentFrom(s, i + 1)
indentPre(content) == Lit(<<SP>>) \o indentFrom(content, 1)

VARIABLES
  \* mergeConstraints applied to drawn arguments
  mOld, mNew, mRes, mDone,
  \* state.sep.constraints under updateSeparatorConstraints / emitSep
  sepC, lastUpd,
  \* the cleanup pre-pass: env.conf.parsoid.editMode, the tree (each node's
  \* record and child list), the traversal (node to visit, handler to call,
  \* application number), the tree as the first application left it, and the
  \* last handler call
  editMode, nodes, kids, cursor, phase, passNo, snap, lastCall,
  \* a run of serializeDOM: the serializer state, the DOM, env.page.src, the
  \* text handed to the sink, the strings handed to emitSep, whether an
  \* exception is under way, the node whose output the sink refuses, whether
  \* escapeWikiText went past its quick check, the call stack, how the run
  \* stands, and whether a tag handler has thrown
  st, dom, src, out, seps, exc, fail, slowPath, stack, status, handlerThrew,
  \* a call of escapeWikiText: the serializer state it reads (onSOL,
  \* inIndentPre, inPHPBlock, what the escaper on top of wteHandlerStack and
  \* the tokenizer answer), the text, and what the call gave
  escState, escText, escResult,
  \* a call of _buildTemplateWT: srcParts and what the call gave
  srcParts, tplWT,
  \* a ve.es.Content view: the content data of its model, the view's
  \* contentCache, the HTML in its container, the calls of renderAnnotation
  \* of the last getHtml with the stack getHtml ended with, and how far the
  \* view's life has come
  modelData, contentCache, html, rendered, viewPhase,
  \* a call of makeSeparator: its arguments and what it returned
  mkArgs, mkSep

mergeVars == <<mOld, mNew, mRes, mDone>>
sepVars == <<sepC, lastUpd>>
cleanVars == <<editMode, nodes, kids, cursor, phase, passNo, snap, lastCall>>
runVars == <<st, dom, src, out, seps, exc, fail, slowPath, stack, status, handlerThrew>>
escVars == <<escState, escText, escResult>>
tplVars == <<srcParts, tplWT>>
viewVars == <<modelData, contentCache, html, rendered, viewPhase>>
mkVars == <<mkArgs, mkSep>>
vars == <<mergeVars, sepVars, cleanVars, runVars, escVars, tplVars, viewVars, mkVars>>

OptNl == 0..MaxConstraint \cup {Undef}
Constraints == [set : {TRUE}, min : OptNl, max : OptNl, a : {EmptyC}, b : {EmptyC}]

MergeIdle == mOld = NoConstraints /\ mNew = NoConstraints /\ mRes = NoConstraints /\ mDone = FALSE
RunIdle ==
  /\ st = initialState(FALSE) /\ dom = emptyDoc.dom /\ src = <<>> /\ out = <<>>
  /\ seps = <<>> /\ exc = FALSE /\ fail = NoNode /\ slowPath = FALSE
  /\ stack = <<>> /\ status = "idle" /\ handlerThrew = FALSE
EscIdle ==
  /\ escState = [onSOL |-> FALSE, inIndentPre |-> FALSE, inPHPBlock |-> FALSE,
                 wteHandler |-> "none", hasWikitextTokens |-> FALSE,
                 lineEscapes |-> FALSE]
  /\ escText = <<>>
  /\ escResult = [called |-> FALSE, threw |-> FALSE, text |-> <<>>]
MkIdle ==
  /\ mkArgs = [sep |-> <<>>, nodeName |-> "p", nlConstraints |-> NoConstraints,
               atStartOfOutput |-> FALSE]
  /\ mkSep = [called |-> FALSE, sep |-> <<>>]
TplIdle == srcParts = <<>> /\ tplWT = [called |-> FALSE, wt |-> <<>>]
ViewIdle ==
  /\ modelData = <<>> /\ contentCache = <<>> /\ html = <<>>
  /\ rendered = [calls |-> <<>>, stack |-> <<>>, threw |-> FALSE]
  /\ viewPhase = "idle"
SepIdle == sepC = NoConstraints /\ lastUpd = [called |-> FALSE, a |-> NoCallback, b |-> NoCallback]


(***************************************************************************)
(* The cleanup pre-pass: stripMarkerMetas and cleanupAndSaveDataParsoid.   *)
(***************************************************************************)
\* A typeof attribute is its sequence of space-separated tokens, a token the
\* sequence of its /-separated parts; an absent and an empty attribute are
\* both <<>> (both are falsy and match no pattern).
TypeTokens ==
  { <<"mw:StartTag">>, <<"mw:EndTag">>, <<"mw:TSRMarker">>,
    <<"mw:Extension", "ref", "Marker">>, <<"mw:Extension", "ref">>,
    <<"mw:Transclusion">>, <<"mw:Placeholder", "StrippedTag">> }

IsPrefix(p, t) == Len(p) <= Len(t) /\ \A i \in 1..Len(p) : t[i] = p[i]

\* /\bmw:(StartTag|EndTag|Extension\/ref\/Marker|TSRMarker)\/?[^\s]*\b/
MarkerNames ==
  { <<"mw:StartTag">>, <<"mw:EndTag">>, <<"mw:Extension", "ref", "Marker">>,
    <<"mw:TSRMarker">> }
MatchesMarker(typeOf) ==
  \E i \in 1..Len(typeOf) : \E m \in MarkerNames : IsPrefix(m, typeOf[i])

\* /\bmw:(Transclusion|Extension)\b/.test(node.getAttribute("typeof"))
MatchesTplOrExt(typeOf) ==
  \E i \in 1..Len(typeOf) : typeOf[i][1] \in {"mw:Transclusion", "mw:Extension"}

\* DU.isEncapsulatedElt(node): the node carries template or extension
\* encapsulation information
isEncapsulatedElt(n) ==
  \E i \in 1..Len(n.typeOf) :
      \/ n.typeOf[i] = <<"mw:Transclusion">>
      \/ (n.typeOf[i][1] = "mw:Extension" /\ Len(n.typeOf[i]) >= 2)

\* the property attribute: absent, empty, or a value
NoAttr == "<absent>"
Properties == {NoAttr, "", "mw:PageProp/notoc"}
\* !node.getAttribute("property")
Falsy(attr) == attr = NoAttr \/ attr = ""

\* dp.src: undefined or the source text
NoSrc == "<undefined>"

\* stripMarkerMetas without the check of the property attribute
stripMarkerMetas_noPropertyCheck(em, n) ==
  \/ (n.typeOf # <<>> /\ MatchesMarker(n.typeOf))
  \/ (em /\ n.typeOf = << <<"mw:Placeholder", "StrippedTag">> >>)

\* stripMarkerMetas removing stripped-tag placeholders whatever the mode
stripMarkerMetas_noEditGuard(em, n) ==
  \/ (n.typeOf # <<>> /\ MatchesMarker(n.typeOf) /\ Falsy(n.property))
  \/ n.typeOf = << <<"mw:Placeholder", "StrippedTag">> >>

\* stripMarkerMetas(editMode, node): does it delete the node (and return its
\* next sibling) rather than return true?
stripMarkerMetas(em, n) ==
  \/ (n.typeOf # <<>> /\ MatchesMarker(n.typeOf) /\ Falsy(n.property))
  \/ (em /\ n.typeOf = << <<"mw:Placeholder", "StrippedTag">> >>)

\* cleanupAndSaveDataParsoid(node): "Delete empty auto-inserted elements"
cleanupDeletes(n, nKids) ==
  /\ n.hasData /\ n.dp.present
  /\ nKids = 0 /\ ~n.hasText
  /\ n.dp.autoInsertedStart /\ n.dp.autoInsertedEnd

\* dp.dsr && dp.dsr[0] && dp.dsr[1]: null, undefined and 0 are all falsy
TruthyNum(v) == v # Undef /\ v # 0

\* cleanupAndSaveDataParsoid collapsing the dsr of every fostered node,
\* encapsulated or not
cleanupAndSaveDataParsoid_noEncapsulationCheck(n) ==
  IF ~(n.hasData /\ n.dp.present) THEN n
  ELSE
    LET dp == n.dp
        dropSrc == /\ MatchesTplOrExt(n.typeOf)
                   /\ \/ dp.tsr = <<>>
                      \/ (n.dataMw /\ dp.dsr # <<>> /\ TruthyNum(dp.dsr[1]) /\ TruthyNum(dp.dsr[2]))
        zeroDsr == dp.fostered /\ dp.dsr # <<>>
    IN [n EXCEPT !.dp = [dp EXCEPT
           !.tagId = Undef,
           !.src = IF dropSrc THEN NoSrc ELSE dp.src,
           !.tsr = <<>>,
           !.dsr = IF zeroDsr THEN <<dp.dsr[2], dp.dsr[2]>> ELSE dp.dsr]]

\* cleanupAndSaveDataParsoid(node) on a node it does not delete: the
\* node's data-parsoid record afterwards
cleanupAndSaveDataParsoid(n) ==
  IF ~(n.hasData /\ n.dp.present) THEN n
  ELSE
    LET dp == n.dp
        dropSrc == /\ MatchesTplOrExt(n.typeOf)
                   /\ \/ dp.tsr = <<>>
                      \/ (n.dataMw /\ dp.dsr # <<>> /\ TruthyNum(dp.dsr[1]) /\ TruthyNum(dp.dsr[2]))
        zeroDsr == dp.fostered /\ dp.dsr # <<>> /\ ~isEncapsulatedElt(n)
    IN [n EXCEPT !.dp = [dp EXCEPT
           !.tagId = Undef,
           !.src = IF dropSrc THEN NoSrc ELSE dp.src,
           !.tsr = <<>>,
           !.dsr = IF zeroDsr THEN <<dp.dsr[2], dp.dsr[2]>> ELSE dp.dsr]]

\* ---- the tree ----
Root == 0
NodeIds == 1..MaxNodes

parentOf(kd, n) == CHOOSE p \in DOMAIN kd : \E i \in 1..Len(kd[p]) : kd[p][i] = n
indexIn(seq, n) == CHOOSE i \in 1..Len(seq) : seq[i] = n
\* node.nextSibling; Root stands for null
nextSibling(kd, n) ==
  LET sibs == kd[parentOf(kd, n)]
      i == indexIn(sibs, n)
  IN IF i < Len(sibs) THEN sibs[i + 1] ELSE Root
RemoveAt(seq, i) == [j \in 1..(Len(seq) - 1) |-> IF j < i THEN seq[j] ELSE seq[j + 1]]
\* DU.deleteNode(node)
deleteNode(kd, n) ==
  LET p == parentOf(kd, n)
  IN [kd EXCEPT ![p] = RemoveAt(kd[p], indexIn(kd[p], n))]

\* The traverser that drives the two handlers: a node's handlers run before
\* its children are visited; a handler that returns a node instead of true
\* ends the visit of this node and the traversal goes on from the node
\* returned (null ends the level).
RECURSIVE resumeAfter(_, _)
resumeAfter(kd, n) ==
  IF n = Root THEN Root
  ELSE IF nextSibling(kd, n) # Root THEN nextSibling(kd, n)
  ELSE resumeAfter(kd, parentOf(kd, n))
nextInTraversal(kd, n) ==
  IF kd[n] # <<>> THEN kd[n][1] ELSE resumeAfter(kd, n)
\* the handler the traverser calls first on a node: stripMarkerMetas is
\* registered for meta elements, cleanupAndSaveDataParsoid for all nodes
phaseFor(ns, n) ==
  IF n = Root THEN "done" ELSE IF ns[n].name = "meta" THEN "strip" ELSE "cleanup"

\* ---- the trees the pre-pass is run on ----
TypeOfs ==
  UNION { [1..k -> TypeTokens] : k \in 0..MaxTypeofLen }
DefaultDp ==
  [present |-> TRUE, autoInsertedStart |-> FALSE, autoInsertedEnd |-> FALSE,
   tagId |-> Undef, src |-> NoSrc, tsr |-> <<>>, dsr |-> <<>>, fostered |-> FALSE]
Dsrs == { <<>>, <<0, 2>>, <<1, 3>>, <<2, 2>>, <<Undef, 3>> }
\* a lone meta: every typeof, every property
MetaNodes ==
  [name : {"meta"}, typeOf : TypeOfs, property : Properties,
   dataMw : {FALSE}, hasText : {FALSE}, hasData : {TRUE}, dp : {DefaultDp}]
\* a lone element: every data-parsoid record
EltNodes ==
  [name : {"span"},
   typeOf : { <<>>, << <<"mw:Transclusion">> >>, << <<"mw:Extension", "ref">> >> },
   property : {NoAttr}, dataMw : BOOLEAN, hasText : BOOLEAN, hasData : BOOLEAN,
   dp : [present : {TRUE}, autoInsertedStart : BOOLEAN, autoInsertedEnd : BOOLEAN,
         tagId : {Undef, 7}, src : {NoSrc, "{{echo|a}}"}, tsr : {<<>>, <<0, 2>>},
         dsr : Dsrs, fostered : BOOLEAN]]
\* the nodes of a tree of several elements
TreeNodes ==
  [name : {"span"}, typeOf : { <<>>, << <<"mw:Transclusion">> >> },
   property : {NoAttr}, dataMw : {FALSE}, hasText : {FALSE}, hasData : {TRUE},
   dp : [present : {TRUE}, autoInsertedStart : BOOLEAN, autoInsertedEnd : BOOLEAN,
         tagId : {7}, src : {"{{echo|a}}"}, tsr : {<<>>, <<0, 2>>},
         dsr : {<<0, 2>>}, fostered : {FALSE}]]
  \cup
  [name : {"meta"}, typeOf : { << <<"mw:EndTag">> >> }, property : {NoAttr},
   dataMw : {FALSE}, hasText : {FALSE}, hasData : {TRUE}, dp : {DefaultDp}]

\* the child lists of a tree of k elements: node i's parent is a node below i
KidsOf(k, par) ==
  [n \in 0..k |-> LET cs == {c \in 1..k : par[c] = n}
                      RECURSIVE asc(_)
                      asc(S) == IF S = {} THEN <<>>
                                ELSE LET m == CHOOSE x \in S : \A y \in S : x <= y
                                     IN <<m>> \o asc(S \ {m})
                  IN asc(cs)]
Shapes(k) == { par \in [1..k -> 0..(k - 1)] : \A c \in 1..k : par[c] < c }

NoCall == [op |-> "none", node |-> Root, before |-> [name |-> "none"], deleted |-> FALSE]
CleanIdle ==
  /\ editMode = FALSE /\ nodes = <<>> /\ kids = <<>> /\ cursor = Root
  /\ phase = "idle" /\ passNo = 0 /\ snap = <<>> /\ lastCall = NoCall

(***************************************************************************)
(* SpecCleanup: the pre-pass applied to a tree, then applied once more.    *)
(***************************************************************************)
InitCleanup ==
  /\ editMode \in BOOLEAN
  /\ \E k \in 1..MaxNodes :
       /\ nodes \in [1..k -> IF k = 1 THEN MetaNodes \cup EltNodes ELSE TreeNodes]
       /\ \E par \in Shapes(k) : kids = KidsOf(k, par)
  /\ cursor = 1
  /\ phase = phaseFor(nodes, 1)
  /\ passNo = 1
  /\ snap = <<>>
  /\ lastCall = NoCall
  /\ MergeIdle /\ SepIdle /\ RunIdle /\ EscIdle /\ TplIdle /\ ViewIdle /\ MkIdle

\* the traverser calls stripMarkerMetas.bind(null, editMode) on a meta
StripMarkerMetas ==
  /\ phase = "strip"
  /\ LET n == nodes[cursor]
         del == stripMarkerMetas(editMode, n)
         nxt == IF nextSibling(kids, cursor) # Root THEN nextSibling(kids, cursor)
                ELSE resumeAfter(kids, parentOf(kids, cursor))
     IN /\ lastCall' = [op |-> "strip", node |-> cursor, before |-> n, deleted |-> del]
        /\ IF del
             THEN /\ kids' = deleteNode(kids, cursor)
                  /\ cursor' = nxt
                  /\ phase' = phaseFor(nodes, nxt)
             ELSE /\ phase' = "cleanup"
                  /\ UNCHANGED <<kids, cursor>>
  /\ UNCHANGED <<editMode, nodes, passNo, snap, mergeVars, sepVars, runVars, escVars, tplVars, viewVars, mkVars>>

\* the traverser calls cleanupAndSaveDataParsoid on a node
CleanupAndSaveDataParsoid ==
  /\ phase = "cleanup"
  /\ LET n == nodes[cursor]
         del == cleanupDeletes(n, Len(kids[cursor]))
         nxt == IF del
                  THEN (IF nextSibling(kids, cursor) # Root THEN nextSibling(kids, cursor)
                        ELSE resumeAfter(kids, parentOf(kids, cursor)))
                  ELSE nextInTraversal(kids, cursor)
     IN /\ lastCall' = [op |-> "cleanup", node |-> cursor, before |-> n, deleted |-> del]
        /\ kids' = IF del THEN deleteNode(kids, cursor) ELSE kids
        /\ nodes' = IF del THEN nodes
                    ELSE [nodes EXCEPT ![cursor] = cleanupAndSaveDataParsoid(n)]
        /\ cursor' = nxt
        /\ phase' = phaseFor(nodes, nxt)
  /\ UNCHANGED <<editMode, passNo, snap, mergeVars, sepVars, runVars, escVars, tplVars, viewVars, mkVars>>

\* the pre-pass is applied to the tree a second time
SecondApplication ==
  /\ phase = "done" /\ passNo = 1
  /\ snap' = <<nodes, kids>>
  /\ passNo' = 2
  /\ cursor' = IF kids[Root] # <<>> THEN kids[Root][1] ELSE Root
  /\ phase' = IF kids[Root] # <<>> THEN phaseFor(nodes, kids[Root][1]) ELSE "done"
  /\ lastCall' = NoCall
  /\ UNCHANGED <<editMode, nodes, kids, mergeVars, sepVars, runVars, escVars, tplVars, viewVars, mkVars>>

NextCleanup == StripMarkerMetas \/ CleanupAndSaveDataParsoid \/ SecondApplication
SpecCleanup == InitCleanup /\ [][NextCleanup]_vars

\* the nodes still in the tree
RECURSIVE reach(_, _)
reach(kd, n) == {n} \cup UNION { reach(kd, kd[n][i]) : i \in 1..Len(kd[n]) }
InTree(kd) == reach(kd, Root) \ {Root}

\* C6: applying the cleanup pre-pass a second time leaves the node set and
\* every node's data-parsoid record (src, tsr, tagId, dsr) as they were
\* after the first application.
C6_CleanupIdempotent ==
  (passNo = 2 /\ phase = "done")
    => /\ kids = snap[2]
       /\ \A n \in InTree(kids) : nodes[n].dp = snap[1][n].dp

HasTransclusion(typeOf) == \E i \in 1..Len(typeOf) : typeOf[i] = <<"mw:Transclusion">>

\* C9 as claimed: stripMarkerMetas never removes a meta whose typeof contains
\* mw:Transclusion, whatever else the typeof contains and even without a
\* property attribute.
C9_TransclusionNeverRemoved ==
  (lastCall.op = "strip" /\ HasTransclusion(lastCall.before.typeOf))
    => ~lastCall.deleted

\* C9 as amended: a meta whose typeof contains mw:Transclusion and that
\* carries a non-empty property attribute is never removed, even when its
\* typeof also contains a marker; it is the property attribute that protects.
C9_TransclusionWithPropertyKept ==
  (/\ lastCall.op = "strip"
   /\ HasTransclusion(lastCall.before.typeOf)
   /\ ~Falsy(lastCall.before.property))
    => ~lastCall.deleted

\* a meta with mw:Transclusion, a marker and a property went through
\* stripMarkerMetas and is still in the tree
C9_Witness ==
  /\ lastCall.op = "strip"
  /\ HasTransclusion(lastCall.before.typeOf)
  /\ MatchesMarker(lastCall.before.typeOf)
  /\ ~Falsy(lastCall.before.property)
  /\ lastCall.node \in InTree(kids)

Cleaned ==
  /\ lastCall.op = "cleanup" /\ ~lastCall.deleted
  /\ lastCall.before.hasData /\ lastCall.before.dp.present

\* both offsets of the dsr are known (0 is a known offset)
CompleteDsr(dsr) == dsr # <<>> /\ dsr[1] # Undef /\ dsr[2] # Undef

\* C11: after cleanupAndSaveDataParsoid on an element whose typeof marks it
\* as transclusion or extension, data-parsoid.src is dropped whenever the
\* node had no tsr, or had a data-mw and a complete dsr (a start offset of 0
\* included); in all other cases src is as it was.
C11_SrcDroppedWhenReconstructable ==
  (Cleaned /\ MatchesTplOrExt(lastCall.before.typeOf))
    => LET b == lastCall.before
           drop == b.dp.tsr = <<>> \/ (b.dataMw /\ CompleteDsr(b.dp.dsr))
       IN nodes[lastCall.node].dp.src = IF drop THEN NoSrc ELSE b.dp.src

\* C12: after cleanupAndSaveDataParsoid a surviving element that was
\* fostered, had a dsr and is not encapsulated has the zero-width dsr
\* [old dsr[1], old dsr[1]]; an encapsulated or a not fostered element keeps
\* its dsr.
C12_FosteredDsrCollapsed ==
  Cleaned
    => LET b == lastCall.before
       IN nodes[lastCall.node].dp.dsr =
            IF b.dp.fostered /\ b.dp.dsr # <<>> /\ ~isEncapsulatedElt(b)
              THEN <<b.dp.dsr[2], b.dp.dsr[2]>>
              ELSE b.dp.dsr

\* a fostered, not encapsulated element whose dsr was not zero-width has
\* been through cleanupAndSaveDataParsoid, in a pass that also kept the dsr
\* of nothing else: its dsr is now zero-width at the old end offset
C12_Witness ==
  /\ Cleaned
  /\ lastCall.before.dp.fostered /\ ~isEncapsulatedElt(lastCall.before)
  /\ lastCall.before.dp.dsr = <<1, 3>>
  /\ nodes[lastCall.node].dp.dsr = <<3, 3>>

(***************************************************************************)
(* SpecMerge: mergeConstraints on every pair of constraints.               *)
(***************************************************************************)
InitMerge ==
  /\ mOld \in Constraints /\ mNew \in Constraints
  /\ mRes = NoConstraints /\ mDone = FALSE
  /\ SepIdle /\ CleanIdle /\ RunIdle /\ EscIdle /\ TplIdle /\ ViewIdle /\ MkIdle

MergeConstraints ==
  /\ ~mDone
  /\ mRes' = mergeConstraints(mOld, mNew)
  /\ mDone' = TRUE
  /\ UNCHANGED <<mOld, mNew, sepVars, cleanVars, runVars, escVars, tplVars, viewVars, mkVars>>

NextMerge == MergeConstraints
SpecMerge == InitMerge /\ [][NextMerge]_vars

\* a constraint whose own range is not empty
WellFormedC(c) == c.min = Undef \/ c.max = Undef \/ c.min <= c.max

\* C7: on a conflict (max of the mins above min of the maxes, an absent max
\* counting as 2) mergeConstraints lets the newer constraint win: the result
\* lies in the newer constraint's own range.  Stated for two constraints that
\* are each satisfiable, the case in which the newer range can be honoured.
C7_NewerWins ==
  (/\ mDone /\ WellFormedC(mOld) /\ WellFormedC(mNew)
   /\ Max2(OrZero(mOld.min), OrZero(mNew.min)) >
        Min2(IF mOld.max # Undef THEN mOld.max ELSE DefaultMax,
             IF mNew.max # Undef THEN mNew.max ELSE DefaultMax))
    => /\ (mNew.max # Undef => mRes.max <= mNew.max)
       /\ mRes.min >= OrZero(mNew.min)

(***************************************************************************)
(* SpecSep: state.sep.constraints under a run's calls of                   *)
(* updateSeparatorConstraints and emitSep.                                 *)
(***************************************************************************)
\* what the sepnls callbacks of the tag handlers return
HandlerResults ==
  { CbResult(Undef, Undef),   \* {}            meta, br.before, li.before
    CbResult(1, Undef),       \* {min:1}       pre, br.after, table lastChild
    CbResult(Undef, 0),       \* {max:0}       meta (mw:Includes), blockquote
    CbResult(0, 0), CbResult(0, 1), CbResult(0, 2),
    CbResult(1, 1), CbResult(1, 2), CbResult(2, 2) }

Callbacks == HandlerResults \cup {NoCallback}

InitSep ==
  /\ sepC = NoConstraints
  /\ lastUpd = [called |-> FALSE, a |-> NoCallback, b |-> NoCallback]
  /\ MergeIdle /\ CleanIdle /\ RunIdle /\ EscIdle /\ TplIdle /\ ViewIdle /\ MkIdle

\* WSP.updateSeparatorConstraints(state, nodeA, handlerA, nodeB, handlerB):
\* the topology of the two nodes selects the two callbacks
UpdateSeparatorConstraints ==
  \E cbA \in Callbacks, cbB \in Callbacks :
    /\ sepC' = updateSeparatorConstraints(sepC, cbA, cbB)
    /\ lastUpd' = [called |-> TRUE, a |-> cbA, b |-> cbB]
    /\ UNCHANGED <<mergeVars, cleanVars, runVars, escVars, tplVars, viewVars, mkVars>>

\* state.emitSep: "Reset separator state"
EmitSepReset ==
  /\ sepC.set
  /\ sepC' = NoConstraints
  /\ lastUpd' = [called |-> FALSE, a |-> NoCallback, b |-> NoCallback]
  /\ UNCHANGED <<mergeVars, cleanVars, runVars, escVars, tplVars, viewVars, mkVars>>

\* tagHandlers.br.handle on the br of a p/br pair: state.sep.constraints has
\* a min of 2 and the br is the one child of its p
BrRewrite ==
  /\ sepC.set /\ sepC.min = 2
  /\ sepC' = [sepC EXCEPT !.min = 2, !.max = 2]
  /\ UNCHANGED <<lastUpd, mergeVars, cleanVars, runVars, escVars, tplVars, viewVars, mkVars>>

NextSep == UpdateSeparatorConstraints \/ EmitSepReset \/ BrRewrite
SpecSep == InitSep /\ [][NextSep]_vars

\* C8: when neither callback of a pair specifies a max, the constraint
\* recorded in state.sep.constraints has max = 2.
C8_DefaultMaxIsTwo ==
  (/\ lastUpd.called
   /\ (~lastUpd.a.present \/ lastUpd.a.max = Undef)
   /\ (~lastUpd.b.present \/ lastUpd.b.max = Undef))
    => sepC.max = DefaultMax

(***************************************************************************)
(* Spec: runs of WSP.serializeDOM(body, chunkCB, finalCB, selserMode).     *)
(* The call stack holds a frame for serializeDOM, for every call of        *)
(* serializeChildren, for every _serializeNode that has called a tag       *)
(* handler (the try block) and for every tag handler.                      *)
(***************************************************************************)
Machine ==
  [st |-> st, dom |-> dom, src |-> src, out |-> out, seps |-> seps,
   exc |-> exc, fail |-> fail, slowPath |-> slowPath]
Commit(m) ==
  /\ st' = m.st /\ dom' = m.dom /\ out' = m.out /\ seps' = m.seps
  /\ exc' = m.exc /\ fail' = m.fail /\ slowPath' = m.slowPath
  /\ UNCHANGED src

InitDoc(doc, selserMode, hasSrc) ==
  /\ dom = doc.dom
  /\ src = IF hasSrc THEN doc.src ELSE <<>>
  /\ st = initialState(selserMode)

Init ==
  /\ \E items \in ItemSeqs : \E selserMode \in BOOLEAN :
       \E marks \in MarksFor(items) : \E hasSrc \in BOOLEAN :
         /\ selserMode => hasSrc
         /\ hasSrc => Parsed(items)
         /\ ~selserMode => marks = NoMarks(items)
         /\ InitDoc(Doc(items, marks), selserMode, hasSrc)
  /\ fail \in {NoNode} \cup (1..Len(dom))
  /\ out = <<>> /\ seps = <<>> /\ exc = FALSE /\ slowPath = FALSE
  /\ stack = <<>> /\ status = "ready" /\ handlerThrew = FALSE
  /\ MergeIdle /\ SepIdle /\ CleanIdle /\ EscIdle /\ TplIdle /\ ViewIdle /\ MkIdle

Top == stack[Len(stack)]
Pop(s) == SubSeq(s, 1, Len(s) - 1)
Running == status = "running" /\ stack # <<>> /\ ~exc
\* the loop of serializeChildren is at child c
AtChild(c) == Running /\ Top.f = "serializeChildren" /\ Top.child = c /\ c # NoNode
\* nextChild === child: child = child.nextSibling
Advance(s) == [s EXCEPT ![Len(s)].child = domNextSibling(dom, @)]

\* the machine after a step, and the stack when the step did not throw
Step(m, newStack) ==
  /\ Commit(m)
  /\ stack' = IF m.exc THEN stack ELSE newStack

\* a call of state.serializeChildren(node, cb, wtEscaper): the caller goes
\* on at pc when the call returns
Call(e, pc) ==
  /\ Commit(e.m)
  /\ stack' = [stack EXCEPT ![Len(stack)].pc = pc] \o <<e.frame>>
CallChildren(m, wtEscaper) ==
  IF m.exc THEN Commit(m) /\ UNCHANGED stack
  ELSE Call(enterChildren(m, Top.node, wtEscaper), "close")

\* serializeDOM up to the loop of state.serializeChildren(body, state.chunkCB)
SerializeDOM ==
  /\ status = "ready"
  /\ stack' = << Frame("serializeDOM", Body, NoNode, 0, "", FALSE, "eof", 0),
                 enterChildren(Machine, Body, NoEscaper).frame >>
  /\ Commit(enterChildren(Machine, Body, NoEscaper).m)
  /\ status' = "running"
  /\ UNCHANGED <<handlerThrew, mergeVars, sepVars, cleanVars, escVars, tplVars, viewVars, mkVars>>

\* _serializeNode on the text or comment child fail, when the code it runs
\* before it hands anything to cb throws: the switch is outside the try block
SerializeTextNodeThrows ==
  \E c \in 1..Len(dom) :
    /\ AtChild(c) /\ ~isElt(dom, c) /\ c = fail
    /\ exc' = TRUE /\ fail' = Thrown
    /\ UNCHANGED <<st, dom, src, out, seps, slowPath, stack, status, handlerThrew,
                   mergeVars, sepVars, cleanVars, escVars, tplVars, viewVars, mkVars>>

\* _serializeNode on a text or comment child
SerializeTextNode ==
  \E c \in 1..Len(dom) :
    /\ AtChild(c) /\ ~isElt(dom, c)
    /\ Step(serializeTextOrComment(Machine, c), Advance(stack))
    /\ UNCHANGED <<status, handlerThrew, mergeVars, sepVars, cleanVars, escVars, tplVars, viewVars, mkVars>>

\* the separator constraints _serializeNode updates before an element
beforeElement(c) == updateSep(Machine, getPrevSeparatorElement(dom, c), c)

\* _serializeNode on an element that is serialized from the page source
SerializeFromSource ==
  \E c \in 1..Len(dom) :
    /\ AtChild(c) /\ isElt(dom, c)
    /\ fromSource(Machine, c)
    /\ Step(updateSep(serializeFromSource(beforeElement(c), c),
                      c, getNextSeparatorElement(dom, c)),
            Advance(stack))
    /\ UNCHANGED <<status, handlerThrew, mergeVars, sepVars, cleanVars, escVars, tplVars, viewVars, mkVars>>

\* the flags _serializeNode sets before it calls the handler
notHandled(m, c) ==
  [m EXCEPT !.st.prevNodeUnmodified = m.st.currNodeUnmodified,
            !.st.currNodeUnmodified = FALSE,
            !.st.inModifiedContent =
               IF m.st.selserMode /\ hasInsertedOrModifiedDiffMark(m.dom, c)
                 THEN TRUE ELSE @]

\* where the handler _getDOMHandler found starts
handlerEntry(h) == IF h \in {"noop", "template"} THEN h ELSE "enter"

\* _serializeNode on an element, up to the call of domHandler.handle
InvokeHandler ==
  \E c \in 1..Len(dom) :
    /\ AtChild(c) /\ isElt(dom, c)
    /\ ~fromSource(Machine, c)
    /\ Commit(notHandled(beforeElement(c), c))
    /\ stack' = stack \o
         << Frame("_serializeNode", c, NoNode, 0, st.chunkCB, FALSE, "try",
                  Len(st.wteHandlerStack)),
            Frame("handle", c, NoNode, 0, "", FALSE,
                  handlerEntry(getDOMHandler(dom, st.activeTemplateId, c)), 0) >>
    /\ UNCHANGED <<status, handlerThrew, mergeVars, sepVars, cleanVars, escVars, tplVars, viewVars, mkVars>>

\* {handle: function() {}}: the handler of an element of the active template
HandleNoop ==
  /\ Running /\ Top.f = "handle" /\ Top.pc = "noop"
  /\ Step(Machine, Pop(stack))
  /\ UNCHANGED <<status, handlerThrew, mergeVars, sepVars, cleanVars, escVars, tplVars, viewVars, mkVars>>

\* the handler of a template root: state.activeTemplateId = about, then
\* emitWikitext(dp.src, ...) (state.rtTesting is true)
HandleTemplate ==
  /\ Running /\ Top.f = "handle" /\ Top.pc = "template"
  /\ Step(emitWikitext([Machine EXCEPT !.st.activeTemplateId = dom[Top.node].about],
                        dom[Top.node].tplSrc, Top.node),
          Pop(stack))
  /\ UNCHANGED <<status, handlerThrew, mergeVars, sepVars, cleanVars, escVars, tplVars, viewVars, mkVars>>

InHandler(name, pc) ==
  Running /\ Top.f = "handle" /\ Top.pc = pc /\ dom[Top.node].name = name

\* WSP._getListBullets(node)
RECURSIVE getListBullets(_, _)
getListBullets(d, n) ==
  IF n = NoNode \/ d[n].name \notin {"ul", "ol", "li"} THEN <<>>
  ELSE getListBullets(d, d[n].parent)
         \o (CASE d[n].name = "ul" -> Lit(<<"*">>)
                [] d[n].name = "ol" -> Lit(<<"#">>)
                [] OTHER -> <<>>)

\* DU.firstNonSepChildNode(node)
firstNonSepChildNode(d, n) ==
  IF firstChild(d, n) = NoNode \/ ~isSepNode(d, firstChild(d, n)) THEN firstChild(d, n)
  ELSE nextNonSepSibling(d, firstChild(d, n))

\* the handler buildListHandler({LI:1}) makes, up to serializeChildren
HandleList ==
  /\ \/ InHandler("ul", "enter")
     \/ InHandler("ol", "enter")
  /\ IF firstNonSepChildNode(dom, Top.node) = NoNode
        \/ dom[firstNonSepChildNode(dom, Top.node)].name # "li"
       THEN CallChildren(chunkCB(Machine, getListBullets(dom, Top.node), Top.node), "liHandler")
       ELSE CallChildren(Machine, "liHandler")
  /\ UNCHANGED <<status, handlerThrew, mergeVars, sepVars, cleanVars, escVars, tplVars, viewVars, mkVars>>

\* tagHandlers.li.handle, up to serializeChildren
HandleListItem ==
  /\ InHandler("li", "enter")
  /\ IF ~isList(dom, firstNonSepChildNode(dom, Top.node))
       THEN CallChildren(chunkCB(Machine, getListBullets(dom, Top.node), Top.node), "liHandler")
       ELSE CallChildren(Machine, "liHandler")
  /\ UNCHANGED <<status, handlerThrew, mergeVars, sepVars, cleanVars, escVars, tplVars, viewVars, mkVars>>

\* tagHandlers.pre.handle of an indent-pre, up to the loop of the
\* serializeChildren that serializeChildrenToString calls
HandlePre ==
  /\ InHandler("pre", "enter")
  /\ Commit(enterChildrenToString([Machine EXCEPT !.st.inIndentPre = TRUE], Top.node).m)
  /\ stack' = [stack EXCEPT ![Len(stack)].pc = "content"]
                 \o << toStringFrame(Machine, Top.node),
                       enterChildrenToString(Machine, Top.node).frame >>
  /\ UNCHANGED <<status, handlerThrew, mergeVars, sepVars, cleanVars, escVars, tplVars, viewVars, mkVars>>

\* serializeChildrenToString after serializeChildren has returned
SerializeChildrenToStringReturn ==
  /\ Running /\ Top.f = "serializeChildrenToString"
  /\ Step(toStringReturn(Machine, Top), Pop(stack))
  /\ UNCHANGED <<status, handlerThrew, mergeVars, sepVars, cleanVars, escVars, tplVars, viewVars, mkVars>>

\* cb(content, node), state.sep.src = '' and state.inIndentPre = false
afterPre(m) ==
  IF m.exc THEN m ELSE [m EXCEPT !.st.sep.src = <<>>, !.st.inIndentPre = FALSE]

\* tagHandlers.pre.handle after serializeChildrenToString has returned
HandlePreContent ==
  /\ InHandler("pre", "content")
  /\ Step(afterPre(chunkCB(Machine, indentPre(st.content), Top.node)), Pop(stack))
  /\ UNCHANGED <<status, handlerThrew, mergeVars, sepVars, cleanVars, escVars, tplVars, viewVars, mkVars>>

\* WSP.linkHandler on a link without rel and with no attribute but href:
\* state.serializeChildrenToString(node, this.wteHandlers.aHandler, false),
\* up to the loop of serializeChildren
HandleLink ==
  /\ InHandler("a", "enter")
  /\ Commit(enterChildrenToStringOnSOL(Machine, Top.node, "aHandler", FALSE).m)
  /\ stack' = [stack EXCEPT ![Len(stack)].pc = "content"]
                 \o << toStringFrame(Machine, Top.node),
                       enterChildrenToStringOnSOL(Machine, Top.node, "aHandler", FALSE).frame >>
  /\ UNCHANGED <<status, handlerThrew, mergeVars, sepVars, cleanVars, escVars, tplVars, viewVars, mkVars>>

\* cb('[' + href + ' ' + the children's text + ']', node), href being "u"
HandleLinkContent ==
  /\ InHandler("a", "content")
  /\ Step(chunkCB(Machine, Lit(<<"[", "u", SP>>) \o st.content \o Lit(<<"]">>), Top.node),
          Pop(stack))
  /\ UNCHANGED <<status, handlerThrew, mergeVars, sepVars, cleanVars, escVars, tplVars, viewVars, mkVars>>

\* tagHandlers.hr.handle
HandleHr ==
  /\ InHandler("hr", "enter")
  /\ Step(chunkCB(Machine, Lit(<<"-", "-", "-", "-">>), Top.node), Pop(stack))
  /\ UNCHANGED <<status, handlerThrew, mergeVars, sepVars, cleanVars, escVars, tplVars, viewVars, mkVars>>

\* what tagHandlers.br.handle does before it calls cb, and what it gives cb
brConstraints(m, n) ==
  IF /\ m.dom[m.dom[n].parent].name = "p"
     /\ m.st.sep.constraints.set /\ m.st.sep.constraints.min = 2
     /\ Len(m.dom[m.dom[n].parent].kids) = 1
    THEN [m EXCEPT !.st.sep.constraints.min = 2, !.st.sep.constraints.max = 2]
    ELSE m
brOutput(d, n) ==
  IF d[d[n].parent].name # "p" THEN Lit(<<"<", "b", "r", ">">>) ELSE <<>>

\* tagHandlers.br.handle
HandleBr ==
  /\ InHandler("br", "enter")
  /\ Step(chunkCB(brConstraints(Machine, Top.node), brOutput(dom, Top.node), Top.node),
          Pop(stack))
  /\ UNCHANGED <<status, handlerThrew, mergeVars, sepVars, cleanVars, escVars, tplVars, viewVars, mkVars>>

\* tagHandlers.p.handle
HandleP ==
  /\ InHandler("p", "enter")
  /\ CallChildren(Machine, NoEscaper)
  /\ UNCHANGED <<status, handlerThrew, mergeVars, sepVars, cleanVars, escVars, tplVars, viewVars, mkVars>>

nowiki == Lit(<<"<", "n", "o", "w", "i", "k", "i", "/", ">">>)

\* the handler buildHeadingHandler("==") makes, up to serializeChildren
HandleHeading ==
  /\ InHandler("h2", "enter")
  /\ IF dom[Top.node].kids # <<>>
       THEN CallChildren(chunkCB(Machine, Lit(<<"=", "=">>), Top.node), "headingHandler")
       ELSE Step(chunkCB(chunkCB(Machine, Lit(<<"=", "=">>), Top.node), nowiki, Top.node),
                 [stack EXCEPT ![Len(stack)].pc = "close"])
  /\ UNCHANGED <<status, handlerThrew, mergeVars, sepVars, cleanVars, escVars, tplVars, viewVars, mkVars>>

\* if (_hasPrecedingQuoteElements(node, state)) emitStartTag('<nowiki/>', ...)
quoteStart(m, n) == IF hasPrecedingQuoteElements(m, n) THEN chunkCB(m, nowiki, n) ELSE m

\* tagHandlers.i.handle, up to serializeChildren
HandleQuote ==
  /\ InHandler("i", "enter")
  /\ CallChildren(chunkCB(quoteStart(Machine, Top.node), Lit(<<"'", "'">>), Top.node),
                  "quoteHandler")
  /\ UNCHANGED <<status, handlerThrew, mergeVars, sepVars, cleanVars, escVars, tplVars, viewVars, mkVars>>

\* the closing markup a handler emits after serializeChildren
closing(name) ==
  CASE name = "h2" -> Lit(<<"=", "=">>)
    [] name = "i"  -> Lit(<<"'", "'">>)
    [] OTHER -> <<>>

\* the rest of a handler after serializeChildren has returned
HandlerReturn ==
  /\ Running /\ Top.f = "handle" /\ Top.pc = "close"
  /\ IF dom[Top.node].name \in {"h2", "i"}
       THEN Step(chunkCB(Machine, closing(dom[Top.node].name), Top.node), Pop(stack))
       ELSE Step(Machine, Pop(stack))
  /\ UNCHANGED <<status, handlerThrew, mergeVars, sepVars, cleanVars, escVars, tplVars, viewVars, mkVars>>

\* _serializeNode after the try block: state.inModifiedContent = false and
\* the end separator constraints; the caller's loop moves to the next child
SerializeNodeTail ==
  /\ Running /\ Top.f = "_serializeNode"
  /\ Commit(updateSep([Machine EXCEPT !.st.inModifiedContent = FALSE],
                      Top.node, getNextSeparatorElement(dom, Top.node)))
  /\ stack' = Advance(Pop(stack))
  /\ UNCHANGED <<status, handlerThrew, mergeVars, sepVars, cleanVars, escVars, tplVars, viewVars, mkVars>>

\* "Force out accumulated separator"
forceOut(m, f) ==
  IF f.oldSep = m.st.sep.id
    THEN chunkCB(m, <<>>, IF m.dom[f.node].kids = <<>> THEN f.node
                                                       ELSE lastChild(m.dom, f.node))
    ELSE m
\* this.chunkCB = oldCB; if (wtEscaper) this.wteHandlerStack.pop()
leaveChildren(m, f) ==
  IF m.exc THEN m
  ELSE [m EXCEPT !.st.chunkCB = f.oldCB,
                 !.st.wteHandlerStack = IF f.esc THEN Pop(@) ELSE @]

\* serializeChildren after its loop
SerializeChildrenReturn ==
  /\ Running /\ Top.f = "serializeChildren" /\ Top.child = NoNode
  /\ Step(leaveChildren(forceOut(Machine, Top), Top), Pop(stack))
  /\ UNCHANGED <<status, handlerThrew, mergeVars, sepVars, cleanVars, escVars, tplVars, viewVars, mkVars>>

\* whether serializeDOM has returned
Finish(m) ==
  /\ Step(m, <<>>)
  /\ status' = IF m.exc THEN status ELSE "returned"

\* serializeDOM after the traversal: state.chunkCB('', body), finalCB, return
HandleEOF ==
  /\ Running /\ Top.f = "serializeDOM"
  /\ Finish(chunkCB(Machine, <<>>, Body))
  /\ UNCHANGED <<handlerThrew, mergeVars, sepVars, cleanVars, escVars, tplVars, viewVars, mkVars>>

\* an exception leaves serializeChildren or a tag handler: neither has a
\* try block
Unwind ==
  /\ status = "running" /\ exc
  /\ Top.f \in {"serializeChildren", "serializeChildrenToString", "handle"}
  /\ stack' = Pop(stack)
  /\ handlerThrew' = (handlerThrew \/ Top.f = "handle")
  /\ UNCHANGED <<st, dom, src, out, seps, exc, fail, slowPath, status,
                 mergeVars, sepVars, cleanVars, escVars, tplVars, viewVars, mkVars>>

\* the catch block of _serializeNode: console.error, nothing else
CatchInSerializeNode ==
  /\ status = "running" /\ exc
  /\ Top.f = "_serializeNode"
  /\ exc' = FALSE
  /\ UNCHANGED <<st, dom, src, out, seps, fail, slowPath, stack, status, handlerThrew,
                 mergeVars, sepVars, cleanVars, escVars, tplVars, viewVars, mkVars>>

\* the catch block of serializeDOM: console.warn, env.errCB(e), throw e
CatchInSerializeDOM ==
  /\ status = "running" /\ exc
  /\ Top.f = "serializeDOM"
  /\ status' = "thrown"
  /\ stack' = <<>>
  /\ UNCHANGED <<st, dom, src, out, seps, exc, fail, slowPath, handlerThrew,
                 mergeVars, sepVars, cleanVars, escVars, tplVars, viewVars, mkVars>>

Next ==
  \/ SerializeDOM \/ SerializeTextNode \/ SerializeFromSource \/ InvokeHandler
  \/ HandleHr \/ HandleBr \/ HandleP \/ HandleHeading \/ HandleQuote
  \/ HandleNoop \/ HandleTemplate
  \/ HandlePre \/ SerializeChildrenToStringReturn \/ HandlePreContent
  \/ HandleList \/ HandleListItem
  \/ HandleLink \/ HandleLinkContent
  \/ HandlerReturn \/ SerializeNodeTail \/ SerializeChildrenReturn \/ HandleEOF
  \/ Unwind \/ CatchInSerializeNode \/ CatchInSerializeDOM
  \/ SerializeTextNodeThrows
Spec == Init /\ [][Next]_vars

\* the quick check of escapeWikiText settles every text of these documents
QuickCheckOnly == ~slowPath
\* every element of these documents gets a tag handler of its own, a
\* template handler or the no-op handler: _htmlElementHandler is never called
NoHtmlElementHandler ==
  \A i \in 1..Len(stack) :
    (stack[i].f = "handle" /\ stack[i].pc = "enter") => dom[stack[i].node].name # "span"

(***************************************************************************)
(* Properties of a run.                                                    *)
(***************************************************************************)
\* C1: no character of the page source that a separator is made of is
\* written to the sink twice: after a node is handled its separator has
\* been emitted once or is pending in state.sep, never emitted twice
C1_SeparatorNeverEmittedTwice ==
  \A i \in 1..Len(out) : \A j \in 1..Len(out) :
    (i < j /\ out[i].o # NoOrigin) => out[i].o # out[j].o

NoDiffMarks == \A n \in 1..Len(dom) : ~dom[n].mark

\* C2: in selser mode, on a DOM whose elements carry valid DSR and where no
\* node bears a diff mark, the text serializeDOM hands to the sink is the
\* page source
C2_SelserOutputEqualsSource ==
  (status = "returned" /\ st.selserMode /\ NoDiffMarks) => SameText(out, src)

\* C3: every string passed to state.emitSep matches the separator grammar
C3_EmittedSeparatorsValid ==
  \A i \in 1..Len(seps) : isValidSep(seps[i])

\* C4: when control is back in _serializeNode after the handler it called,
\* state.wteHandlerStack is as deep as it was when the handler was called
C4_HandlerStackBalanced ==
  (Running /\ Top.f = "_serializeNode") => Len(st.wteHandlerStack) = Top.depth

\* C5: when a tag handler has thrown, serializeDOM does not return normally
C5_HandlerExceptionRethrown ==
  status = "returned" => ~handlerThrew

\* a selser run over an unmarked page that holds an element, and whose
\* comments hold no comment terminator, returns the page source
HasElement == \E n \in 1..Len(dom) : n # Body /\ isElt(dom, n)
PlainComments == \A n \in 1..Len(dom) : isComment(dom, n) => IndexOf(dom[n].value, 1, CommentClose) = 0
SelserRoundTripWithElement ==
  (status = "returned" /\ st.selserMode /\ NoDiffMarks /\ HasElement /\ PlainComments)
    => SameText(out, src)

\* without a paragraph that holds only a line break, no source character
\* of a separator is written twice
NoBr == \A n \in 1..Len(dom) : dom[n].name # "br"
NoDoubleEmissionWithoutBr == NoBr => C1_SeparatorNeverEmittedTwice

\* node a is a proper ancestor of node n
RECURSIVE isAncestor(_, _, _)
isAncestor(d, a, n) ==
  IF n = NoNode \/ d[n].parent = NoNode THEN FALSE
  ELSE d[n].parent = a \/ isAncestor(d, a, d[n].parent)

\* the handler of node n, which bears an inserted/modified diff mark, is
\* running in a selser run
ModifiedHandlerRunning(n) ==
  /\ st.selserMode /\ status = "running"
  /\ hasInsertedOrModifiedDiffMark(dom, n)
  /\ \E i \in 1..Len(stack) : stack[i].f = "handle" /\ stack[i].node = n

\* the chunk written last was the page source of element n
\* (cb(out, node) of the selser branch: currNodeUnmodified was true)
EmittedFromSource(n) == st.prevNodeUnmodified /\ st.prevNode = n /\ isElt(dom, n)

\* while the handler of a marked node runs, inModifiedContent is true
InModifiedContentHeld ==
  \A n \in 1..Len(dom) : ModifiedHandlerRunning(n) => st.inModifiedContent
\* while the handler of a marked node runs, no descendant of the node is
\* written from the page source
NoDescendantFromSource ==
  \A n \in 1..Len(dom) : ModifiedHandlerRunning(n)
    => \A c \in 1..Len(dom) : isAncestor(dom, n, c) => ~EmittedFromSource(c)

\* C13: in selser mode, while the handler of a node bearing an
\* inserted/modified diff mark is running, state.inModifiedContent stays
\* true, so that no descendant of the node (first child or later child) is
\* emitted verbatim from the page source.
C13_ModifiedContentNotFromSource ==
  InModifiedContentHeld /\ NoDescendantFromSource

\* n is an element of the active template other than its root
OfActiveTemplate(n) ==
  /\ isElt(dom, n) /\ dom[n].tplSrc = <<>>
  /\ st.activeTemplateId # NoAbout /\ dom[n].about = st.activeTemplateId

\* C14: once a template root with about = X has been emitted and
\* activeTemplateId = X, no later element whose about is X contributes a
\* content chunk to the output, in selser mode as in non-selser mode, until
\* activeTemplateId is replaced.
C14_TemplateSiblingsSuppressed ==
  \A n \in 1..Len(dom) : OfActiveTemplate(n) => st.lastContent # n

\* outside selser mode no element of the active template contributes a
\* content chunk
SiblingsSuppressedOutsideSelser ==
  ~st.selserMode => C14_TemplateSiblingsSuppressed
\* nor does one without a valid dsr in selser mode
SiblingsWithoutDsrSuppressed ==
  \A n \in 1..Len(dom) :
    (OfActiveTemplate(n) /\ ~isValidDSR(dom[n].dsr)) => st.lastContent # n

\* C15: at every point of a run state.currLine.text is the concatenation of
\* the unescaped text-node chunks emitted since the last newline was
\* written to the output (by a separator or inside a chunk); it holds no
\* text of an earlier output line.
C15_CurrLineTextIsCurrentLine ==
  (status \in {"running", "returned"} /\ fail # Thrown)
    => SameText(st.currLine.text, st.lineText)

\* a call of serializeChildrenToString has not returned yet
ToStringActive ==
  \E i \in 1..Len(stack) : stack[i].f = "serializeChildrenToString"
\* C16: serializeChildrenToString leaves the outer separator state and sink
\* alone: no step of the call writes to the sink of the run, and when the
\* call returns state.sep is the record it was when the call was made
\* (constraints, src, lastSourceNode and lastSourceSep included) and
\* state.chunkCB is the sink that was installed then
C16_ToStringLeavesOuterState ==
  [][(status = "running" /\ ToStringActive)
       => /\ out' = out
          /\ (Top.f = "serializeChildrenToString" /\ ~exc)
                => (st'.sep = Top.oldSep /\ st'.chunkCB = Top.oldCB)]_vars
\* C16 witness: serializeChildrenToString has returned the text of a pre to
\* its handler, and the separator state it gave back holds constraints
C16_Witness ==
  /\ status = "running" /\ stack # <<>> /\ ~exc
  /\ Top.f = "handle" /\ Top.pc = "content" /\ dom[Top.node].name = "pre"
  /\ st.content # <<>>
  /\ st.sep.constraints.set
  /\ out # <<>>

\* the last k characters of s
suffix(s, k) == SubSeq(s, Len(s) - k + 1, Len(s))
\* a and b are consecutive sibling elements (separator nodes apart), both
\* without a diff mark and with a valid DSR, a ends before b starts, and
\* the page source between them is a valid separator
UnmodifiedPair(a, b) ==
  /\ a # NoNode /\ isElt(dom, a) /\ isElt(dom, b)
  /\ previousNonSepSibling(dom, b) = a
  /\ ~hasCurrentDiffMark(dom, a) /\ ~hasCurrentDiffMark(dom, b)
  /\ isValidDSR(dom[a].dsr) /\ isValidDSR(dom[b].dsr)
  /\ dom[a].dsr[2] <= dom[b].dsr[1]
  /\ isValidSep(getOrigSrc(Machine, dom[a].dsr[2], dom[b].dsr[1]))
\* _serializeNode is about to serialize b, the second of such a pair, in a
\* selser run in which nothing was thrown, outside modified content
AtSecondOfPair(a, b) ==
  /\ st.selserMode /\ fail # Thrown /\ AtChild(b) /\ UnmodifiedPair(a, b)
  /\ \A x \in 1..Len(dom) : isAncestor(dom, x, b) => ~hasCurrentDiffMark(dom, x)
\* the output ends with the page source from the start of a to the end of
\* b (the ranges being the nodes' dsr after the step), and the separator
\* emitted last is the literal page source between the two ranges
PairRoundTrip(a, b) ==
  /\ Len(out') >= dom'[b].dsr[2] - dom'[a].dsr[1]
  /\ suffix(out', dom'[b].dsr[2] - dom'[a].dsr[1])
       = getOrigSrc(Machine, dom'[a].dsr[1], dom'[b].dsr[2])
  /\ seps' # <<>>
  /\ seps'[Len(seps')] = getOrigSrc(Machine, dom'[a].dsr[2], dom'[b].dsr[1])
\* C17: in selser mode, when the second of two consecutive unmodified
\* siblings has been serialized, the output ends with the page source from
\* the start of the first to the end of the second, and the separator
\* emitted between them is the literal page source between their ranges
C17_UnmodifiedSiblingsRoundTrip ==
  [][\A b \in 1..Len(dom) :
       (AtSecondOfPair(previousNonSepSibling(dom, b), b) /\ ~exc')
         => PairRoundTrip(previousNonSepSibling(dom, b), b)]_vars
\* the same holds of every pair whose second node keeps its trailing
\* separator (its next sibling bears no diff mark)
RoundTripWithoutTrailingStrip ==
  [][\A b \in 1..Len(dom) :
       (/\ AtSecondOfPair(previousNonSepSibling(dom, b), b) /\ ~exc'
        /\ ~hasCurrentDiffMark(dom, domNextSibling(dom, b)))
         => PairRoundTrip(previousNonSepSibling(dom, b), b)]_vars

\* n is a p whose children are a non-empty text, a br of wikitext syntax
\* and a non-empty text, and its handler serialized it
BrBetweenTexts(n) ==
  /\ dom[n].name = "p" /\ Len(dom[n].kids) = 3
  /\ isText(dom, dom[n].kids[1]) /\ dom[dom[n].kids[1]].value # <<>>
  /\ dom[dom[n].kids[2]].name = "br"
  /\ isText(dom, dom[n].kids[3]) /\ dom[dom[n].kids[3]].value # <<>>
  /\ (st.selserMode => hasCurrentDiffMark(dom, n))
\* where the character of source offset o stands in the output
posOf(o) == CHOOSE i \in 1..Len(out) : out[i].o = o
\* what the sink got between the chunks of the two texts of n
betweenTexts(n) ==
  SubSeq(out, posOf(dom[dom[n].kids[1]].value[1].o) + 1,
              posOf(dom[dom[n].kids[3]].value[1].o) - 1)
\* C18: a br of wikitext syntax inside a p, between two non-empty texts,
\* puts no literal <br> and exactly two newlines between the two texts
C18_BrInParagraphBreaksLine ==
  (status = "returned" /\ fail # Thrown)
    => \A n \in 1..Len(dom) :
         BrBetweenTexts(n)
           => /\ IndexOf(betweenTexts(n), 1, <<"<", "b", "r", ">">>) = 0
              /\ CountNl(betweenTexts(n)) = 2

\* a and b are lists of the same kind and b is the next non-separator
\* sibling of a
AdjacentLists(a, b) ==
  /\ a # NoNode /\ b # NoNode
  /\ isList(dom, a) /\ dom[b].name = dom[a].name
  /\ nextNonSepSibling(dom, a) = b
\* the handler of the first item of list b is about to write its bullet:
\* every merge of the constraints between the lists has been done
AtFirstBullet(b) ==
  /\ Running /\ Top.f = "handle" /\ Top.pc = "enter"
  /\ Top.node = firstNonSepChildNode(dom, b) /\ dom[Top.node].name = "li"
\* what the sink got between the item texts of the lists a and b
betweenLists(a, b) ==
  SubSeq(out, posOf(dom[lastChild(dom, lastChild(dom, a))].value[1].o) + 1,
              posOf(dom[firstChild(dom, firstChild(dom, b))].value[1].o) - 1)
EscChars == {"~", "x", NL, CR, "{", "="}
EscTexts == UNION {[1..k -> EscChars] : k \in 0..MaxTextLen}
EscStates ==
  [onSOL : BOOLEAN, inIndentPre : BOOLEAN, inPHPBlock : BOOLEAN,
   wteHandler : {"none", "declines", "accepts"},
   hasWikitextTokens : BOOLEAN, lineEscapes : BOOLEAN]

InitEscape ==
  /\ escState \in EscStates
  /\ \E t \in EscTexts : escText = Lit(t)
  /\ escResult = [called |-> FALSE, threw |-> FALSE, text |-> <<>>]
  /\ MergeIdle /\ SepIdle /\ CleanIdle /\ RunIdle /\ TplIdle /\ ViewIdle /\ MkIdle

\* escapeWikiText(state, text)
EscapeWikiText ==
  /\ ~escResult.called
  /\ escResult' = [called |-> TRUE,
                   threw |-> escapeWikiTextOn(escState, escText).threw,
                   text |-> escapeWikiTextOn(escState, escText).text]
  /\ UNCHANGED <<escState, escText, mergeVars, sepVars, cleanVars, runVars, tplVars, viewVars, mkVars>>

NextEscape == EscapeWikiText
SpecEscape == InitEscape /\ [][NextEscape]_vars

\* the result is the text between <nowiki> and </nowiki>, line ends after
nowikiWrapped(r) ==
  /\ At(r, 1, <<"<", "n", "o", "w", "i", "k", "i", ">">>)
  /\ HasLit(r, <<"<", "/", "n", "o", "w", "i", "k", "i", ">">>)
\* C20: escapeWikiText returns a nowiki-wrapped result for every text that
\* holds a run of three to five tildes, whatever onSOL, inIndentPre,
\* inPHPBlock, the escaper on the stack and the tokenizer say
C20_TildesAlwaysWrapped ==
  (escResult.called /\ hasTildes(escText))
    => (~escResult.threw /\ nowikiWrapped(escResult.text))
\* it does so for every text with tildes that escapedText can match: one
\* that does not end with a \r that no \n follows
TildesWrappedWhenMatched ==
  (escResult.called /\ hasTildes(escText) /\ escapedTextCuts(escText) # {})
    => (~escResult.threw /\ nowikiWrapped(escResult.text))

\* v with every "-->" replaced by "--&gt;", left to right
RECURSIVE replaceEveryClose(_)
replaceEveryClose(v) ==
  LET j == IndexOf(v, 1, CommentClose)
  IN IF j = 0 THEN v
     ELSE SubSeq(v, 1, j - 1) \o Lit(EscapedClose)
            \o replaceEveryClose(SubSeq(v, j + 3, Len(v)))
\* C21: the wikitext produced for a comment node (here accumulated into
\* state.sep.src, where handleSeparatorText puts every comment) is "<!--",
\* the body with every "-->" replaced by "--&gt;", and "-->"
C21_CommentBodyFullyEscaped ==
  [][\A c \in 1..Len(dom) :
       (AtChild(c) /\ isComment(dom, c))
         => SameText(st'.sep.src,
                     st.sep.src \o Lit(CommentOpen)
                       \o replaceEveryClose(dom[c].value) \o Lit(CommentClose))]_vars

(***************************************************************************)
(* SpecTemplate: WSP._buildTemplateWT applied to drawn source parts.       *)
(* Text is a sequence of characters.  tpl.params is the sequence of its    *)
(* properties [k, wt] in the order they were added, no name twice.         *)
(***************************************************************************)
Digits == <<"0", "1", "2", "3", "4", "5", "6", "7", "8", "9">>
IsDigit(c) == \E d \in 1..10 : Digits[d] = c
digitValue(c) == (CHOOSE d \in 1..10 : Digits[d] = c) - 1
\* the number a string of digits writes
RECURSIVE numberOf(_)
numberOf(k) ==
  IF k = <<>> THEN 0
  ELSE numberOf(SubSeq(k, 1, Len(k) - 1)) * 10 + digitValue(k[Len(k)])
\* Number.prototype.toString() of a natural number
RECURSIVE toString(_)
toString(i) ==
  IF i < 10 THEN <<Digits[i + 1]>>
  ELSE toString(i \div 10) \o <<Digits[(i % 10) + 1]>>
\* a property name that is an array index: the canonical decimal writing of
\* a natural number
isIndexKey(k) ==
  /\ k # <<>>
  /\ \A i \in 1..Len(k) : IsDigit(k[i])
  /\ toString(numberOf(k)) = k
\* the positions in S of params, by rising number of the name
RECURSIVE indexKeysOf(_, _)
indexKeysOf(params, S) ==
  IF S = {} THEN <<>>
  ELSE LET i == CHOOSE i \in S :
                  \A j \in S : numberOf(params[i].k) <= numberOf(params[j].k)
       IN <<params[i].k>> \o indexKeysOf(params, S \ {i})
\* the names in the order they were added
RECURSIVE namesOf(_)
namesOf(params) ==
  IF params = <<>> THEN <<>> ELSE <<params[1].k>> \o namesOf(Tail(params))
nameIsIndex(prop) == isIndexKey(prop.k)
nameIsNoIndex(prop) == ~isIndexKey(prop.k)
\* Object.keys(tpl.params): array indices by rising value, then the other
\* names in the order they were added
objectKeys(params) ==
  indexKeysOf(params, {i \in 1..Len(params) : nameIsIndex(params[i])})
    \o namesOf(SelectSeq(params, nameIsNoIndex))
\* tpl.params[k].wt
paramWT(params, k) == params[CHOOSE i \in 1..Len(params) : params[i].k = k].wt

\* WSP.escapeTplArgWT(arg)
escapeTplArgWT(arg) == arg

\* what the loop pushes to argBuf for keys[i], i counted from 0, when every
\* argument is written name=value
tplArg_neverPositional(params, i) ==
  objectKeys(params)[i + 1] \o <<"=">>
    \o escapeTplArgWT(paramWT(params, objectKeys(params)[i + 1]))
\* what the loop pushes to argBuf for keys[i], i counted from 0
tplArg(params, i) ==
  LET k == objectKeys(params)[i + 1]
      v == escapeTplArgWT(paramWT(params, k))
  IN IF k = toString(i + 1) THEN v ELSE k \o <<"=">> \o v
\* argBuf after the loop has pushed the first n arguments
RECURSIVE argBuf(_, _)
argBuf(params, n) ==
  IF n = 0 THEN <<>> ELSE argBuf(params, n - 1) \o <<tplArg(params, n - 1)>>
\* Array.prototype.join(sep) of an array of strings
RECURSIVE join(_, _)
join(a, sep) ==
  IF a = <<>> THEN <<>>
  ELSE IF Len(a) = 1 THEN a[1]
  ELSE a[1] \o sep \o join(Tail(a), sep)

\* what the callback of srcParts.map pushes to buf for one part
bufOfPart(part) ==
  IF part.isTpl
    THEN <<<<"{", "{">>, part.target>>
           \o (IF Len(part.params) > 0
                 THEN <<<<"|">>, join(argBuf(part.params, Len(part.params)), <<"|">>)>>
                 ELSE <<>>)
           \o <<<<"}", "}">>>>
    ELSE <<part.wt>>
\* buf after the callback has run on every part
RECURSIVE bufOf(_)
bufOf(parts) ==
  IF parts = <<>> THEN <<>>
  ELSE bufOfPart(parts[1]) \o bufOf(Tail(parts))
\* WSP._buildTemplateWT(srcParts)
buildTemplateWT(parts) == join(bufOf(parts), <<>>)

MaxParts == 2
MaxTplParams == 2
TplNames == {<<"1">>, <<"2">>, <<"a">>, <<"0", "1">>}
TplValues == {<<"x">>, <<"b", "=">>}
TplProps == [k : TplNames, wt : TplValues]
TplParams ==
  {p \in UNION {[1..n -> TplProps] : n \in 0..MaxTplParams} :
     \A i, j \in 1..Len(p) : p[i].k = p[j].k => i = j}
TplPart(target, params) == [isTpl |-> TRUE, target |-> target, params |-> params, wt |-> <<>>]
PlainPart(wt) == [isTpl |-> FALSE, target |-> <<>>, params |-> <<>>, wt |-> wt]
SrcPartSet == {TplPart(<<"t">>, p) : p \in TplParams} \cup {PlainPart(<<"w">>)}

InitTemplate ==
  /\ srcParts \in UNION {[1..n -> SrcPartSet] : n \in 0..MaxParts}
  /\ tplWT = [called |-> FALSE, wt |-> <<>>]
  /\ MergeIdle /\ SepIdle /\ CleanIdle /\ RunIdle /\ EscIdle /\ ViewIdle /\ MkIdle

\* src = state.serializer._buildTemplateWT(srcParts)
BuildTemplateWT ==
  /\ ~tplWT.called
  /\ tplWT' = [called |-> TRUE, wt |-> buildTemplateWT(srcParts)]
  /\ UNCHANGED <<srcParts, mergeVars, sepVars, cleanVars, runVars, escVars, viewVars, mkVars>>

NextTemplate == BuildTemplateWT
SpecTemplate == InitTemplate /\ [][NextTemplate]_vars

\* the argument the format gives the i-th parameter (counted from 1, in
\* key order) of params
RECURSIVE formatArgs(_, _)
formatArgs(params, i) ==
  IF i > Len(params) THEN <<>>
  ELSE LET k == objectKeys(params)[i]
       IN (IF i > 1 THEN <<"|">> ELSE <<>>)
            \o (IF k = toString(i) THEN <<>> ELSE k \o <<"=">>)
            \o paramWT(params, k)
            \o formatArgs(params, i + 1)
\* "{{" target ( "|" arg ("|" arg)* )? "}}" for a template part, the part
\* itself for any other
formatPart(part) ==
  IF ~part.isTpl THEN part.wt
  ELSE IF part.params = <<>> THEN <<"{", "{">> \o part.target \o <<"}", "}">>
  ELSE <<"{", "{">> \o part.target \o <<"|">> \o formatArgs(part.params, 1) \o <<"}", "}">>
RECURSIVE formatParts(_)
formatParts(parts) ==
  IF parts = <<>> THEN <<>> ELSE formatPart(parts[1]) \o formatParts(Tail(parts))
\* C22: _buildTemplateWT returns the parts in order, a template part as
\* "{{" target "}}" when it has no parameters and as "{{" target "|" args
\* joined by "|" "}}" otherwise, the i-th parameter written as its value
\* when its name is the decimal string of i and as name=value otherwise, and
\* any other part as it is
C22_TemplateFormat ==
  tplWT.called => tplWT.wt = formatParts(srcParts)
\* C22 witness: a template whose first parameter is positional and whose
\* second is named has been built, after a plain part
C22_Witness ==
  /\ tplWT.called
  /\ Len(srcParts) = 2 /\ ~srcParts[1].isTpl /\ srcParts[2].isTpl
  /\ Len(srcParts[2].params) = 2
  /\ objectKeys(srcParts[2].params) = << <<"1">>, <<"a">> >>
  /\ srcParts[2].params[1].k = <<"a">>

(***************************************************************************)
(* SpecContent: a ve.es.Content view on a model whose content changes.     *)
(* Content data is a sequence of items: a plain item is a character, a     *)
(* formatted one a character followed by its annotations.  An annotation   *)
(* is an object: id tells one object from another.  HTML is a sequence of  *)
(* pieces: the opening of a span of a type, the closing of a span, or the  *)
(* rendering of a character.                                               *)
(***************************************************************************)
MaxContentLen == 2
Bold == [id |-> 1, type |-> "textStyle/bold"]
Italic == [id |-> 2, type |-> "textStyle/italic"]
Annotations == {Bold, Italic}
\* the keys of ve.es.Content.annotationRenderers of the annotations drawn
RendererTypes == {"textStyle/bold", "textStyle/italic"}
ContentChars == {"a", "&"}
PlainItem(c) == [plain |-> TRUE, chr |-> c, anns |-> <<>>]
FormattedItem(c, anns) == [plain |-> FALSE, chr |-> c, anns |-> anns]
AnnotationLists ==
  {l \in UNION {[1..n -> Annotations] : n \in 0..Cardinality(Annotations)} :
     \A i, j \in 1..Len(l) : l[i] = l[j] => i = j}
ContentItems ==
  {PlainItem(c) : c \in ContentChars}
    \cup {FormattedItem(c, l) : c \in ContentChars, l \in AnnotationLists}
ContentData == UNION {[1..n -> ContentItems] : n \in 0..MaxContentLen}

OpenSpan(type) == [k |-> "open", v |-> type]
CloseSpan == [k |-> "close", v |-> "</span>"]
\* renderers[type].open / renderers[type].close of the text styles
rendererOpen(a) == <<OpenSpan(a.type)>>
rendererClose(a) == <<CloseSpan>>
\* ve.es.Content.htmlCharacters: chr in htmlChars ? htmlChars[chr] : chr
htmlCharacter(c) ==
  IF c = "&" THEN <<[k |-> "text", v |-> "&amp;"]>>
  ELSE IF c = "<" THEN <<[k |-> "text", v |-> "&lt;"]>>
  ELSE IF c = ">" THEN <<[k |-> "text", v |-> "&gt;"]>>
  ELSE IF c = "'" THEN <<[k |-> "text", v |-> "&#039;"]>>
  ELSE IF c = "\"" THEN <<[k |-> "text", v |-> "&quot;"]>>
  ELSE IF c = NL
    THEN <<OpenSpan("es-contentView-whitespace"), [k |-> "text", v |-> "&#182;"], CloseSpan>>
  ELSE IF c = "\t"
    THEN <<OpenSpan("es-contentView-whitespace"), [k |-> "text", v |-> "&#8702;"], CloseSpan>>
  ELSE <<[k |-> "text", v |-> c]>>

\* ve.inArray(value, array): the first index (from 0) of value, -1 for none
inArray(a, arr) ==
  IF \E i \in 1..Len(arr) : arr[i] = a
    THEN (CHOOSE i \in 1..Len(arr) : arr[i] = a /\ \A j \in 1..(i - 1) : arr[j] # a) - 1
    ELSE -1
\* the closings of stack[i] for i from the top down to index from (from 0)
RECURSIVE closeDownTo(_, _, _)
closeDownTo(stk, i, from) ==
  IF i < from THEN <<>>
  ELSE rendererClose(stk[i + 1]) \o closeDownTo(stk, i - 1, from)
\* the openings of stack[i] for i from index from (from 0) up to the top
RECURSIVE openUpFrom(_, _)
openUpFrom(stk, i) ==
  IF i >= Len(stk) THEN <<>>
  ELSE rendererOpen(stk[i + 1]) \o openUpFrom(stk, i + 1)
\* stack.splice(depth, 1), depth from 0
splice1(stk, depth) == SubSeq(stk, 1, depth) \o SubSeq(stk, depth + 2, Len(stk))

\* the else branch of a close with the top of the stack taken off instead
\* of the annotation
closeBuried_popsTop(a, stk) ==
  IF inArray(a, stk) = -1 THEN [out |-> <<>>, stack |-> stk, threw |-> TRUE]
  ELSE [out |-> closeDownTo(stk, Len(stk) - 1, inArray(a, stk) + 1)
                  \o rendererClose(a) \o openUpFrom(stk, inArray(a, stk) + 1),
        stack |-> SubSeq(stk, 1, Len(stk) - 1), threw |-> FALSE]
\* renderAnnotation('close', annotation, stack) when the annotation is not
\* on top of the stack
closeBuried(a, stk) ==
  IF inArray(a, stk) = -1 THEN [out |-> <<>>, stack |-> stk, threw |-> TRUE]
  ELSE [out |-> closeDownTo(stk, Len(stk) - 1, inArray(a, stk) + 1)
                  \o rendererClose(a) \o openUpFrom(stk, inArray(a, stk) + 1),
        stack |-> splice1(stk, inArray(a, stk)), threw |-> FALSE]
\* ve.es.Content.renderAnnotation(bias, annotation, stack): what it returns,
\* the stack after the call, and whether it threw
renderAnnotation(bias, a, stk) ==
  IF a.type \notin RendererTypes THEN [out |-> <<>>, stack |-> stk, threw |-> FALSE]
  ELSE IF bias = "open"
    THEN [out |-> rendererOpen(a), stack |-> Append(stk, a), threw |-> FALSE]
  ELSE IF stk # <<>> /\ stk[Len(stk)] = a
    THEN [out |-> rendererClose(a), stack |-> SubSeq(stk, 1, Len(stk) - 1),
          threw |-> FALSE]
  ELSE closeBuried(a, stk)

\* getHtml so far: out, the stack, the calls of render made with the stack
\* before and after each, and whether one threw
NoHtml == [out |-> <<>>, stack |-> <<>>, calls |-> <<>>, threw |-> FALSE]
\* out += render( bias, annotation, stack )
render(r, bias, a) ==
  IF r.threw THEN r
  ELSE LET x == renderAnnotation(bias, a, r.stack)
       IN [out |-> r.out \o x.out, stack |-> x.stack, threw |-> x.threw,
           calls |-> Append(r.calls,
                            [bias |-> bias, ann |-> a, before |-> r.stack,
                             after |-> x.stack, out |-> x.out, threw |-> x.threw])]
\* for ( j = 1; j < item.length; j++ ) render( bias, item[j], stack ), for
\* the annotations of item from the j-th on that are not in other
RECURSIVE renderEach(_, _, _, _, _)
renderEach(r, bias, anns, j, other) ==
  IF j > Len(anns) THEN r
  ELSE renderEach(IF inArray(anns[j], other) = -1 THEN render(r, bias, anns[j]) ELSE r,
                  bias, anns, j + 1, other)
\* the body of the loop of getHtml for the pair left, right
renderPair(r, left, right) ==
  IF ~left.plain /\ right.plain THEN renderEach(r, "close", left.anns, 1, <<>>)
  ELSE IF left.plain /\ ~right.plain THEN renderEach(r, "open", right.anns, 1, <<>>)
  ELSE IF ~left.plain /\ ~right.plain
    THEN renderEach(renderEach(r, "close", left.anns, 1, right.anns),
                    "open", right.anns, 1, left.anns)
  ELSE r
addCharacter(r, c) == IF r.threw THEN r ELSE [r EXCEPT !.out = @ \o htmlCharacter(c)]
\* the loop of getHtml from item i on
RECURSIVE renderFrom(_, _, _, _)
renderFrom(r, data, i, left) ==
  IF i > Len(data) THEN r
  ELSE renderFrom(addCharacter(renderPair(r, left, data[i]), data[i].chr),
                  data, i + 1, data[i])
\* ve.es.Content.prototype.getHtml(range, options) with a falsy range, on
\* the view's contentCache
getHtml(cache) ==
  LET r == renderFrom(NoHtml, cache, 1, PlainItem(""))
  IN IF cache # <<>> /\ ~cache[Len(cache)].plain
       THEN renderEach(r, "close", cache[Len(cache)].anns, 1, <<>>)
       ELSE r

\* this.model.getContentData(): a copy of the content data of the model
getContentData(data) == data

InitContent ==
  /\ modelData \in ContentData
  /\ contentCache = <<>> /\ html = <<>>
  /\ rendered = [calls |-> <<>>, stack |-> <<>>, threw |-> FALSE]
  /\ viewPhase = "new"
  /\ MergeIdle /\ SepIdle /\ CleanIdle /\ RunIdle /\ EscIdle /\ TplIdle /\ MkIdle

\* new ve.es.Content($container, model): listens to 'update' and calls
\* scanBoundaries, which caches the content data
NewContent ==
  /\ viewPhase = "new"
  /\ contentCache' = getContentData(modelData)
  /\ viewPhase' = "built"
  /\ UNCHANGED <<modelData, html, rendered, mergeVars, sepVars, cleanVars, runVars, escVars, tplVars, mkVars>>

\* the listener of 'update': _this.render(offset || 0), which puts
\* this.getHtml(0, this.model.getContentLength()) into the container
onUpdate ==
  /\ html' = IF getHtml(contentCache).threw THEN html ELSE getHtml(contentCache).out
  /\ rendered' = [calls |-> getHtml(contentCache).calls,
                  stack |-> getHtml(contentCache).stack,
                  threw |-> getHtml(contentCache).threw]
  /\ viewPhase' = "rendered"
  /\ UNCHANGED contentCache

\* the model inserts an item at an offset and emits 'update'
InsertContent ==
  /\ viewPhase \in {"built", "rendered"}
  /\ Len(modelData) < MaxContentLen
  /\ \E o \in 0..Len(modelData), item \in ContentItems :
       modelData' = SubSeq(modelData, 1, o) \o <<item>> \o SubSeq(modelData, o + 1, Len(modelData))
  /\ onUpdate
  /\ UNCHANGED <<mergeVars, sepVars, cleanVars, runVars, escVars, tplVars, mkVars>>

\* the model removes the item at an offset and emits 'update'
RemoveContent ==
  /\ viewPhase \in {"built", "rendered"}
  /\ \E o \in 1..Len(modelData) :
       modelData' = SubSeq(modelData, 1, o - 1) \o SubSeq(modelData, o + 1, Len(modelData))
  /\ onUpdate
  /\ UNCHANGED <<mergeVars, sepVars, cleanVars, runVars, escVars, tplVars, mkVars>>

NextContent == NewContent \/ InsertContent \/ RemoveContent
SpecContent == InitContent /\ [][NextContent]_vars

\* C23: after a change of the model's content followed by 'update', the
\* HTML in the container is the rendering of the content data the model has
\* now
C23_RendersCurrentContent ==
  viewPhase = "rendered" => html = getHtml(modelData).out

\* l without a, the order of the others kept
RECURSIVE without(_, _)
without(l, a) ==
  IF l = <<>> THEN <<>>
  ELSE IF l[1] = a THEN Tail(l)
  ELSE <<l[1]>> \o without(Tail(l), a)
\* the annotations the first i calls have opened and not closed, in the
\* order they were opened
RECURSIVE openAfter(_, _)
openAfter(calls, i) ==
  IF i = 0 THEN <<>>
  ELSE IF calls[i].bias = "open" THEN Append(openAfter(calls, i - 1), calls[i].ann)
  ELSE without(openAfter(calls, i - 1), calls[i].ann)
\* spans open after the first n pieces of h
RECURSIVE openSpans(_, _)
openSpans(h, n) ==
  IF n = 0 THEN 0
  ELSE openSpans(h, n - 1)
         + (IF h[n].k = "open" THEN 1 ELSE IF h[n].k = "close" THEN -1 ELSE 0)
\* the spans of the annotations above position d (from 1) of l
RECURSIVE spansAbove(_, _)
spansAbove(l, d) ==
  IF d >= Len(l) THEN <<>> ELSE <<OpenSpan(l[d + 1].type)>> \o spansAbove(l, d + 1)
closesAbove(l, d) == [i \in 1..(Len(l) - d) |-> CloseSpan]
\* what a call of renderAnnotation did is what the stack discipline asks
callKeepsStack(calls, i) ==
  /\ ~calls[i].threw
  /\ calls[i].before = openAfter(calls, i - 1)
  /\ calls[i].after = openAfter(calls, i)
  /\ calls[i].bias = "open" => calls[i].after = Append(calls[i].before, calls[i].ann)
  /\ calls[i].bias = "close" =>
       /\ inArray(calls[i].ann, calls[i].before) # -1
       /\ calls[i].after = without(calls[i].before, calls[i].ann)
       /\ calls[i].out =
            closesAbove(calls[i].before, inArray(calls[i].ann, calls[i].before) + 1)
              \o <<CloseSpan>>
              \o spansAbove(calls[i].before, inArray(calls[i].ann, calls[i].before) + 1)
\* C26: over a rendering, the stack shared by the calls of renderAnnotation
\* is the list of the annotations opened and not yet closed, in the order
\* they were opened: open appends, close takes out that annotation alone
\* (closing and opening again the spans above it); getHtml ends with an
\* empty stack and every span it opened is closed
C26_StackIsOpenAnnotations ==
  viewPhase = "rendered" =>
    /\ ~rendered.threw
    /\ \A i \in 1..Len(rendered.calls) : callKeepsStack(rendered.calls, i)
    /\ rendered.stack = <<>>
    /\ \A n \in 0..Len(html) : openSpans(html, n) >= 0
    /\ openSpans(html, Len(html)) = 0
\* C26 witness: a rendering has closed an annotation that was not on top of
\* the stack
C26_Witness ==
  /\ viewPhase = "rendered" /\ html # <<>>
  /\ \E i \in 1..Len(rendered.calls) :
       /\ rendered.calls[i].bias = "close"
       /\ Len(rendered.calls[i].before) = 2
       /\ rendered.calls[i].before[2] # rendered.calls[i].ann

(***************************************************************************)
(* SpecMakeSeparator: WSP.makeSeparator applied to drawn separators and    *)
(* constraints.                                                            *)
(***************************************************************************)
MaxSepPieces == 4
SepPieces == {<<NL>>, <<SP>>, CommentOpen \o <<"c">> \o CommentClose}
RECURSIVE flatten(_)
flatten(ps) == IF ps = <<>> THEN <<>> ELSE Head(ps) \o flatten(Tail(ps))
ValidSeps == {flatten(ps) : ps \in UNION {[1..n -> SepPieces] : n \in 0..MaxSepPieces}}
\* constraints as getSepNlConstraints and mergeConstraints build them, with
\* min <= max when both are there; of a only min is read
SepConstraints ==
  {[set |-> TRUE, min |-> mn, max |-> mx, a |-> [min |-> amin, max |-> Undef], b |-> EmptyC] :
     mn \in 0..MaxConstraint \cup {Undef}, mx \in 0..MaxConstraint \cup {Undef},
     amin \in {Undef, 1}} \ {c \in [set : {TRUE}, min : 0..MaxConstraint, max : 0..MaxConstraint,
                                   a : [min : {Undef, 1}, max : {Undef}], b : {EmptyC}] :
                               c.min > c.max}

InitMakeSeparator ==
  /\ \E s \in ValidSeps, c \in SepConstraints, name \in {"p", "br"}, start \in BOOLEAN :
       mkArgs = [sep |-> Lit(s), nodeName |-> name, nlConstraints |-> c,
                 atStartOfOutput |-> start]
  /\ mkSep = [called |-> FALSE, sep |-> <<>>]
  /\ MergeIdle /\ SepIdle /\ CleanIdle /\ RunIdle /\ EscIdle /\ TplIdle /\ ViewIdle

\* sep = this.makeSeparator(sep, node, nlConstraints, state)
MakeSeparator ==
  /\ ~mkSep.called
  /\ mkSep' = [called |-> TRUE,
               sep |-> makeSeparator(mkArgs.sep, mkArgs.nodeName, mkArgs.nlConstraints,
                                     mkArgs.atStartOfOutput)]
  /\ UNCHANGED <<mkArgs, mergeVars, sepVars, cleanVars, runVars, escVars, tplVars, viewVars>>

NextMakeSeparator == MakeSeparator
SpecMakeSeparator == InitMakeSeparator /\ [][NextMakeSeparator]_vars

\* the newlines of s outside comments and comment-only lines, counted as
\* makeSeparator counts them
sepNlCount(s) == CountNl(joinPieces(splitBits(s, 1, 1)))
\* blanks and comments, one comment at least, fill the line that starts at
\* position i (up to the next newline or the end of s)
RECURSIVE commentOnlyLine(_, _, _)
commentOnlyLine(s, i, seen) ==
  IF i > Len(s) \/ s[i].c = NL THEN seen
  ELSE IF s[i].c \in {SP, "\t"} THEN commentOnlyLine(s, i + 1, seen)
  ELSE IF CommentEnd(s, i) # 0 THEN commentOnlyLine(s, CommentEnd(s, i), TRUE)
  ELSE FALSE
\* the newlines of s from position i on that are neither in a comment nor
\* the start of a line of blanks and comments
RECURSIVE lineBreaksFrom(_, _)
lineBreaksFrom(s, i) ==
  IF i > Len(s) THEN 0
  ELSE IF CommentEnd(s, i) # 0 THEN lineBreaksFrom(s, CommentEnd(s, i))
  ELSE (IF s[i].c = NL /\ ~commentOnlyLine(s, i + 1, FALSE) THEN 1 ELSE 0)
         + lineBreaksFrom(s, i + 1)
\* the comments of s from position i on, in order
RECURSIVE commentsFrom(_, _)
commentsFrom(s, i) ==
  IF i > Len(s) THEN <<>>
  ELSE IF CommentEnd(s, i) # 0
    THEN <<Chars(SubSeq(s, i, CommentEnd(s, i) - 1))>> \o commentsFrom(s, CommentEnd(s, i))
  ELSE commentsFrom(s, i + 1)
\* the min that counts: nlConstraints.min, less one at the start of the
\* output when nlConstraints.a.min is not set
effectiveMin(c, start) ==
  IF c.min = Undef THEN 0
  ELSE IF start /\ c.a.min = Undef /\ c.min > 0 THEN c.min - 1
  ELSE c.min
\* C24: for a valid separator and constraints with min <= max, the string
\* makeSeparator returns has at least the effective min and at most max
\* newlines outside comments and comment-only lines, and the comments of
\* the separator are in it unchanged.  The newlines are counted as
\* makeSeparator counts them or line by line, whichever suits the bound
C24_MakeSeparatorMeetsConstraints ==
  mkSep.called =>
    /\ \/ sepNlCount(mkSep.sep) >= effectiveMin(mkArgs.nlConstraints, mkArgs.atStartOfOutput)
       \/ lineBreaksFrom(mkSep.sep, 1)
            >= effectiveMin(mkArgs.nlConstraints, mkArgs.atStartOfOutput)
    /\ mkArgs.nlConstraints.max # Undef =>
         \/ sepNlCount(mkSep.sep) <= mkArgs.nlConstraints.max
         \/ lineBreaksFrom(mkSep.sep, 1) <= mkArgs.nlConstraints.max
    /\ commentsFrom(mkSep.sep, 1) = commentsFrom(mkArgs.sep, 1)
\* it does for every separator in which the two counts agree: one that does
\* not end with a comment on a line of its own
MeetsConstraintsWhenCountsAgree ==
  (mkSep.called /\ lineBreaksFrom(mkArgs.sep, 1) = sepNlCount(mkArgs.sep))
    => C24_MakeSeparatorMeetsConstraints

\* C25: when the selser branch has emitted a node from the page source, what
\* it appended to state.sep.src before the chunk, the chunk, and what it
\* appended to state.sep.src after the chunk make up the node's slice of the
\* page source, every character of it once
C25_StripLosesNoSourceByte ==
  (st.fromSrc.node # NoNode /\ fail # Thrown)
    => st.fromSrc.leading \o st.fromSrc.out \o st.fromSrc.newSep = st.fromSrc.src
\* it is so for every slice that holds more than whitespace and comments
NoByteLostUnlessAllSeparator ==
  (st.fromSrc.node # NoNode /\ fail # Thrown /\ ~isValidSep(st.fromSrc.src))
    => st.fromSrc.leading \o st.fromSrc.out \o st.fromSrc.newSep = st.fromSrc.src

\* the selser branch has taken a leading or a trailing separator run off the
\* slice of the node it emitted last
StrippedLast ==
  /\ st.fromSrc.node # NoNode /\ fail # Thrown
  /\ (st.fromSrc.leading # <<>> \/ st.fromSrc.newSep # <<>>)
\* C29: after the selser branch has emitted a node and taken a leading or a
\* trailing separator run off its slice, the node's dsr is the source range
\* of the chunk emitted: dsr[1] - dsr[0] is the length of the chunk and
\* src[dsr[0]..dsr[1]] is the chunk
C29_DsrIsRangeOfEmittedChunk ==
  StrippedLast =>
    /\ dom[st.fromSrc.node].dsr[2] - dom[st.fromSrc.node].dsr[1] = Len(st.fromSrc.out)
    /\ getOrigSrc(Machine, dom[st.fromSrc.node].dsr[1], dom[st.fromSrc.node].dsr[2])
         = st.fromSrc.out
\* it is so when only a leading run was taken off
DsrIsRangeAfterLeadingStrip ==
  (StrippedLast /\ st.fromSrc.newSep = <<>>) => C29_DsrIsRangeOfEmittedChunk

\* C27: when serializeChildrenToString(node, handler, false) returns (here
\* to the link handler), state.onSOL is what it was before the call
C27_ToStringRestoresOnSOL ==
  [][(status = "running" /\ ~exc /\ stack # <<>>
        /\ Top.f = "serializeChildrenToString" /\ dom[Top.node].name = "a")
       => st'.onSOL = Top.onSOL]_vars

\* C28: state.sep.constraints, when it is set and has both a min and a max,
\* has min <= max: after getSepNlConstraints and mergeConstraints on every
\* sepnls result of the tag handlers, and after the br handler's rewrite
C28_ConstraintsMinAtMostMax ==
  (sepC.set /\ sepC.min # Undef /\ sepC.max # Undef) => sepC.min <= sepC.max

\* C28 witness: the two callbacks of the last call conflict (the min of the
\* one is above the max of the other) and the constraints have min = max
C28_Witness ==
  /\ lastUpd.called /\ lastUpd.a.present /\ lastUpd.b.present
  /\ lastUpd.a.min # Undef /\ lastUpd.b.max # Undef
  /\ lastUpd.a.min > lastUpd.b.max
  /\ sepC.set /\ sepC.min = sepC.max

\* the same in the states of a run of serializeDOM
RunConstraintsMinAtMostMax ==
  (st.sep.constraints.set /\ st.sep.constraints.min # Undef /\ st.sep.constraints.max # Undef)
    => st.sep.constraints.min <= st.sep.constraints.max

\* C30: when _serializeNode catches what the handler it called threw,
\* state.chunkCB is the cb the handler was called under, and state.sep is
\* not the scratch object of a serializeChildrenToString the exception
\* left: as the exception leaves that call, state.sep is the oldSep of the call
C30_CatchRestoresSinkAndSep ==
  [][(status = "running" /\ exc /\ stack # <<>>)
       => /\ (Top.f = "_serializeNode" => st'.chunkCB = Top.oldCB)
          /\ (Top.f = "serializeChildrenToString" => st'.sep.id = Top.oldSep.id)]_vars

\* the same for the exceptions that leave no serializeChildrenToString
CatchRestoresSinkOutsideToString ==
  [][(status = "running" /\ exc /\ stack # <<>> /\ Top.f = "_serializeNode"
        /\ st.chunkCB # "appendToBits")
       => st'.chunkCB = Top.oldCB]_vars

====
